---- MODULE Spec2Model ----
(***************************************************************************)
(* A state-machine model of the book tracker client: the session provider, *)
(* the route guard, the sign-in view, the list / create / detail views,    *)
(* the shared form component, and the two external collaborators (the      *)
(* identity service and the record store) as far as the client sees them.  *)
(*                                                                         *)
(* Text is a sequence of one-character strings, so that trim, toLowerCase  *)
(* and includes are computed and not assumed.  A nullable value is <<>>    *)
(* (null) or <<v>>.                                                        *)
(***************************************************************************)
EXTENDS Integers, Sequences, FiniteSets, TLC

VARIABLES
    loading, user, session,          \* AuthProvider state (useAuth.tsx)
    authPc, subscribed, sessionReq,  \* AuthProvider mount effect
    collabSession, authEvents, accounts,  \* identity collaborator
    authCall,                        \* sign-in / sign-up / sign-out call in flight
    route, lastNav,                  \* router
    login,                           \* Login view state
    list, detail, create, form,      \* Books, BookDetail, NewBook, BookForm state
    reqs,                            \* record-store requests in flight
    rows, nextId,                    \* record store (table "books")
    toast,                           \* the notification shown last
    edits                            \* form edits the user has made so far

authVars  == <<loading, user, session>>
mountVars == <<authPc, subscribed, sessionReq>>
idVars    == <<collabSession, authEvents, accounts>>
navVars   == <<route, lastNav>>
viewVars  == <<login, list, detail, create, form>>
storeVars == <<rows, nextId>>
uiVars    == <<authVars, navVars, viewVars, authCall, reqs, toast>>
vars      == <<uiVars, mountVars, idVars, storeVars, edits>>

----------------------------------------------------------------------------
(* Bounds of the model *)
MaxEvents  == 1   \* undelivered auth-change notifications
MaxReqs    == 2   \* record-store requests in flight
MaxRows    == 2   \* records the store will hold
MaxEdits   == 1   \* form edits in one run

(* Program constants *)
MinPasswordLen == 6
NumStars       == 5
SliderMax      == 100
SliderStep     == 5

----------------------------------------------------------------------------
(* Nullable values *)
None     == <<>>
Some(v)  == <<v>>
Val(o)   == o[1]

(* Text *)
Space == " "
IsSpace(c) == c = Space

ToLowerChar(c) ==
    CASE c = "D" -> "d"
      [] c = "H" -> "h"
      [] c = "E" -> "e"
      [] c = "R" -> "r"
      [] c = "B" -> "b"
      [] OTHER   -> c

toLowerCase(s) == [i \in 1..Len(s) |-> ToLowerChar(s[i])]

includes(s, sub) ==
    \E i \in 0..(Len(s) - Len(sub)) : SubSeq(s, i + 1, i + Len(sub)) = sub

RECURSIVE TrimStart(_)
TrimStart(s) ==
    IF s # <<>> /\ IsSpace(Head(s)) THEN TrimStart(Tail(s)) ELSE s

RECURSIVE TrimEnd(_)
TrimEnd(s) ==
    IF s # <<>> /\ IsSpace(s[Len(s)]) THEN TrimEnd(SubSeq(s, 1, Len(s) - 1)) ELSE s

trim(s) == TrimEnd(TrimStart(s))

----------------------------------------------------------------------------
(* Identities and sessions *)
Users == {"u1", "u2"}
UserObj(u)   == [id |-> u]
SessionOf(u) == [user |-> UserObj(u)]

\* session?.user ?? null
UserOfSession(s) == IF s = None THEN None ELSE Some(Val(s).user)

(* Routes *)
Route(p, i) == [page |-> p, id |-> i]
IndexRoute  == Route("index", 0)
LoginRoute  == Route("login", 0)
BooksRoute  == Route("books", 0)
NewRoute    == Route("new", 0)
DetailRoute(i) == Route("detail", i)
BookIds     == 1..MaxRows
Routes      == {IndexRoute, LoginRoute, BooksRoute, NewRoute}
                 \cup {DetailRoute(i) : i \in BookIds}

(* Book drafts and view states *)
Statuses == {"want_to_read", "reading", "read"}

DefaultDraft ==
    [title |-> <<>>, author |-> <<>>, status |-> "want_to_read", rating |-> None,
     review |-> <<>>, is_favorite |-> FALSE, reading_progress |-> 0]

InitLogin  == [isSubmitting |-> FALSE, email |-> "", password |-> <<>>]
InitList   == [books |-> <<>>, loading |-> TRUE, searchQuery |-> <<>>,
               statusFilter |-> "all", fetchDue |-> FALSE]
InitDetail == [book |-> None, loading |-> TRUE, isUpdating |-> FALSE,
               isDeleting |-> FALSE, dialogOpen |-> FALSE, fetchDue |-> FALSE]
InitCreate == [isLoading |-> FALSE]
NoForm     == [host |-> "none", formData |-> DefaultDraft]

\* BookForm's useState initialiser: every field falls back with ||
BookFormInit(initialData) ==
    [title   |-> initialData.title,
     author  |-> initialData.author,
     status  |-> initialData.status,
     rating  |-> IF initialData.rating # None /\ Val(initialData.rating) = 0
                 THEN None ELSE initialData.rating,
     review  |-> initialData.review,
     is_favorite |-> initialData.is_favorite,
     reading_progress |-> initialData.reading_progress]

DetailInitialDataBlankReview(book) ==
    [title   |-> book.title,
     author  |-> IF book.author = None THEN <<>> ELSE Val(book.author),
     status  |-> book.status,
     rating  |-> book.rating,
     review  |-> <<>>,
     is_favorite |-> book.is_favorite,
     reading_progress |-> IF book.reading_progress = None THEN 0
                          ELSE Val(book.reading_progress)]

\* the initialData BookDetail passes to BookForm
DetailInitialData(book) ==
    [title   |-> book.title,
     author  |-> IF book.author = None THEN <<>> ELSE Val(book.author),
     status  |-> book.status,
     rating  |-> book.rating,
     review  |-> IF book.review = None THEN <<>> ELSE Val(book.review),
     is_favorite |-> book.is_favorite,
     reading_progress |-> IF book.reading_progress = None THEN 0
                          ELSE Val(book.reading_progress)]

----------------------------------------------------------------------------
(* The client's state as one record, so that a handler's assignments and   *)
(* the re-render that follows them are computed together.                  *)
Cur ==
    [loading |-> loading, user |-> user, session |-> session,
     route |-> route, lastNav |-> lastNav,
     login |-> login, list |-> list, detail |-> detail, create |-> create,
     form |-> form, authCall |-> authCall, reqs |-> reqs, toast |-> toast]

ProtectedPages == {"books", "new", "detail"}

ProtectedRouteIgnoresLoading(l, u) ==
    IF u = None THEN "redirect" ELSE "children"

\* ProtectedRoute: what it renders for the given provider state
ProtectedRoute(l, u) ==
    IF l THEN "spinner"
    ELSE IF u = None THEN "redirect"
    ELSE "children"

\* the page component mounted for a route and a provider state
Mounted(s) ==
    IF s.route.page \in ProtectedPages
    THEN IF ProtectedRoute(s.loading, s.user) = "children" THEN s.route.page
         ELSE ProtectedRoute(s.loading, s.user)
    ELSE s.route.page

\* BookForm is rendered by NewBook always, by BookDetail once a book is loaded
FormHost(m, d) ==
    IF m = "new" THEN "new"
    ELSE IF m = "detail" /\ ~d.loading /\ d.book # None THEN "detail"
    ELSE "none"

\* React: components that leave the tree lose their state, components that
\* enter it start from their useState initialisers, effects are scheduled on
\* mount and when a dependency changes, and a request whose view has left the
\* tree can no longer set that view's state.
Render(o, n) ==
    LET m1 == Mounted(o)
        m2 == Mounted(n)
        login2  == IF m2 = "login" /\ m1 = "login" THEN n.login ELSE InitLogin
        list2   == IF m2 # "books" THEN InitList
                   ELSE IF m1 # "books" THEN [InitList EXCEPT !.fetchDue = TRUE]
                   ELSE [n.list EXCEPT !.fetchDue = @ \/ n.user # o.user]
        detail2 == IF m2 # "detail" THEN InitDetail
                   ELSE IF m1 # "detail" THEN [InitDetail EXCEPT !.fetchDue = TRUE]
                   ELSE [n.detail EXCEPT !.fetchDue =
                            @ \/ n.user # o.user \/ n.route.id # o.route.id]
        create2 == IF m2 = "new" /\ m1 = "new" THEN n.create ELSE InitCreate
        h1      == FormHost(m1, o.detail)
        h2      == FormHost(m2, detail2)
        form2   == IF h2 = "none" THEN NoForm
                   ELSE IF h1 = h2 THEN n.form
                   ELSE IF h2 = "new" THEN [host |-> "new", formData |-> DefaultDraft]
                   ELSE [host |-> "detail",
                         formData |-> BookFormInit(DetailInitialData(Val(detail2.book)))]
        reqs2   == [i \in 1..Len(n.reqs) |->
                      [n.reqs[i] EXCEPT !.orphan = @ \/ n.reqs[i].view # m2]]
        call2   == IF n.authCall # None /\ Val(n.authCall).mode # "signout" /\ m2 # "login"
                   THEN Some([Val(n.authCall) EXCEPT !.orphan = TRUE])
                   ELSE n.authCall
    IN [n EXCEPT !.login = login2, !.list = list2, !.detail = detail2,
                 !.create = create2, !.form = form2, !.reqs = reqs2,
                 !.authCall = call2]

Commit(s) ==
    /\ loading' = s.loading /\ user' = s.user /\ session' = s.session
    /\ route' = s.route /\ lastNav' = s.lastNav
    /\ login' = s.login /\ list' = s.list /\ detail' = s.detail
    /\ create' = s.create /\ form' = s.form
    /\ authCall' = s.authCall /\ reqs' = s.reqs /\ toast' = s.toast

\* a handler ran from state Cur to s; React re-renders
React(s) == Commit(Render(Cur, s))

\* toast(...): the notification replaces the one shown before
Toast(s, title, description) ==
    [s EXCEPT !.toast = [title |-> title, description |-> description]]
NoToast == [title |-> "", description |-> <<>>]

\* navigate(to) and navigate(to, {replace: true}) / <Navigate replace />
Navigate(s, to, replace, by) ==
    [s EXCEPT !.route = to,
              !.lastNav = [by |-> by, replace |-> replace]]

----------------------------------------------------------------------------
(* The identity collaborator, as the client sees it *)
Ann == "ann@x.io"
Bob == "bob@x.io"
Emails == {Ann, Bob, "carol"}
UidOf(e) == IF e = Ann THEN "u1" ELSE "u2"

PwShort == <<"s", "e", "c", "r", "e">>
PwGood  == <<"s", "e", "c", "r", "e", "t">>
PwWrong == <<"s", "e", "c", "r", "e", "T">>
Passwords == {PwShort, PwGood, PwWrong}

\* error messages are sequences of words
InvalidLoginCredentials == <<"Invalid", "login", "credentials">>
UserAlreadyRegistered   == <<"User", "already", "registered">>
WrongPasswordMessages ==
    {InvalidLoginCredentials, <<"AuthApiError:">> \o InvalidLoginCredentials}
DuplicateMessages ==
    {UserAlreadyRegistered, UserAlreadyRegistered \o <<"(422)">>}
RateLimited == <<"Email", "rate", "limit", "exceeded">>
OtherMessages ==
    {RateLimited,
     <<"invalid", "login", "credentials">>,
     <<"Invalid", "login">>,
     InvalidLoginCredentials \o <<"or">> \o UserAlreadyRegistered}

Ok           == [kind |-> "ok", message |-> <<>>]
Failed(m)    == [kind |-> "error", message |-> m]
Thrown       == [kind |-> "thrown", message |-> <<>>]

\* a change of the collaborator's auth state notifies the subscriber
Emit(s) == IF subscribed THEN Append(authEvents, s) ELSE authEvents
CanEmit == Len(authEvents) < MaxEvents

AuthCall(mode, email, password) ==
    [mode |-> mode, email |-> email, password |-> password, st |-> "sent",
     result |-> Ok, orphan |-> FALSE]

\* supabase.auth.signInWithPassword
CollabSignIn ==
    /\ authCall # None /\ Val(authCall).st = "sent" /\ Val(authCall).mode = "signin"
    /\ LET c == Val(authCall)
           known == [email |-> c.email, password |-> c.password] \in accounts
       IN \/ /\ known /\ CanEmit
             /\ collabSession' = Some(SessionOf(UidOf(c.email)))
             /\ authEvents' = Emit(collabSession')
             /\ authCall' = Some([c EXCEPT !.st = "answered", !.result = Ok])
          \/ /\ ~known
             /\ \E m \in WrongPasswordMessages :
                   authCall' = Some([c EXCEPT !.st = "answered", !.result = Failed(m)])
             /\ UNCHANGED <<edits, collabSession, authEvents>>
    /\ UNCHANGED <<edits, authVars, navVars, viewVars, reqs, toast, mountVars, accounts, storeVars>>

\* supabase.auth.signUp: an address that confirms by mail gets no session yet
CollabSignUp ==
    /\ authCall # None /\ Val(authCall).st = "sent" /\ Val(authCall).mode = "signup"
    /\ LET c == Val(authCall)
           taken == \E a \in accounts : a.email = c.email
       IN \/ /\ ~taken /\ CanEmit
             /\ accounts' = accounts \cup {[email |-> c.email, password |-> c.password]}
             /\ collabSession' = Some(SessionOf(UidOf(c.email)))
             /\ authEvents' = Emit(collabSession')
             /\ authCall' = Some([c EXCEPT !.st = "answered", !.result = Ok])
          \/ /\ ~taken
             /\ accounts' = accounts \cup {[email |-> c.email, password |-> c.password]}
             /\ authCall' = Some([c EXCEPT !.st = "answered", !.result = Ok])
             /\ UNCHANGED <<edits, collabSession, authEvents>>
          \/ /\ taken
             /\ \E m \in DuplicateMessages :
                   authCall' = Some([c EXCEPT !.st = "answered", !.result = Failed(m)])
             /\ UNCHANGED <<edits, collabSession, authEvents, accounts>>
    /\ UNCHANGED <<edits, authVars, navVars, viewVars, reqs, toast, mountVars, storeVars>>

\* any sign-in or sign-up can also fail for another reason, or the call can throw
CollabAuthFails(M) ==
    /\ authCall # None /\ Val(authCall).st = "sent" /\ Val(authCall).mode # "signout"
    /\ \/ \E m \in M :
             authCall' = Some([Val(authCall) EXCEPT !.st = "answered", !.result = Failed(m)])
       \/ authCall' = Some([Val(authCall) EXCEPT !.st = "answered", !.result = Thrown])
    /\ UNCHANGED <<edits, authVars, navVars, viewVars, reqs, toast, mountVars, idVars, storeVars>>

\* supabase.auth.signOut
CollabSignOut ==
    /\ authCall # None /\ Val(authCall).st = "sent" /\ Val(authCall).mode = "signout"
    /\ CanEmit
    /\ collabSession' = None
    /\ authEvents' = Emit(None)
    /\ authCall' = Some([Val(authCall) EXCEPT !.st = "answered", !.result = Ok])
    /\ UNCHANGED <<edits, authVars, navVars, viewVars, reqs, toast, mountVars, accounts, storeVars>>

\* the session ends or is replaced outside this page (expiry, another tab)
CollabAuthChange ==
    /\ authPc = "ready" /\ CanEmit
    /\ \E s \in {None} \cup {Some(SessionOf(UidOf(a.email))) : a \in accounts} :
          /\ s # collabSession
          /\ collabSession' = s
          /\ authEvents' = Emit(s)
    /\ UNCHANGED <<edits, uiVars, mountVars, accounts, storeVars>>

\* the collaborator repeats the current state (initial session, token refresh)
CollabNotify ==
    /\ authPc = "ready" /\ CanEmit /\ subscribed
    /\ authEvents' = Emit(collabSession)
    /\ UNCHANGED <<edits, uiVars, mountVars, collabSession, accounts, storeVars>>

\* supabase.auth.getSession resolves with the session of that moment
CollabGetSession ==
    /\ sessionReq.st = "pending"
    /\ sessionReq' = [st |-> "answered", payload |-> collabSession]
    /\ UNCHANGED <<edits, uiVars, authPc, subscribed, idVars, storeVars>>

----------------------------------------------------------------------------
(* AuthProvider *)

\* the effect's first statement: supabase.auth.onAuthStateChange(handler)
AuthSubscribe ==
    /\ authPc = "mount"
    /\ subscribed' = TRUE
    /\ authPc' = "subscribed"
    /\ UNCHANGED <<edits, uiVars, sessionReq, idVars, storeVars>>

\* the effect's second statement: supabase.auth.getSession()
AuthGetSession ==
    /\ authPc = "subscribed"
    /\ sessionReq' = [st |-> "pending", payload |-> None]
    /\ authPc' = "ready"
    /\ UNCHANGED <<edits, uiVars, subscribed, idVars, storeVars>>

AuthChangeSetsSessionOnly(s, payload) ==
    [s EXCEPT !.session = payload, !.loading = FALSE]

AuthChangeResolvesAgain(s, payload) ==
    [s EXCEPT !.session = payload, !.user = UserOfSession(payload),
              !.loading = (payload = None)]

\* the body of the auth-state-change handler
AuthChangeHandler(s, payload) ==
    [s EXCEPT !.session = payload, !.user = UserOfSession(payload), !.loading = FALSE]

SessionFetchKeepsLoading(s, payload) ==
    [s EXCEPT !.session = payload, !.user = UserOfSession(payload)]

\* the body of the getSession continuation
SessionFetchHandler(s, payload) ==
    [s EXCEPT !.session = payload, !.user = UserOfSession(payload), !.loading = FALSE]

OnAuthStateChange ==
    /\ authPc = "ready" /\ subscribed /\ authEvents # <<>>
    /\ authEvents' = Tail(authEvents)
    /\ React(AuthChangeHandler(Cur, Head(authEvents)))
    /\ UNCHANGED <<edits, mountVars, collabSession, accounts, storeVars>>

GetSessionThen ==
    /\ sessionReq.st = "answered"
    /\ sessionReq' = [sessionReq EXCEPT !.st = "delivered"]
    /\ React(SessionFetchHandler(Cur, sessionReq.payload))
    /\ UNCHANGED <<edits, authPc, subscribed, idVars, storeVars>>

----------------------------------------------------------------------------
(* Login view *)

\* z.string().email(...)
IsEmail(e) == e \in {Ann, Bob}

\* authSchema.safeParse: the messages of the fields that fail, in field order
AuthSchemaErrors(email, password) ==
    (IF IsEmail(email) THEN <<>> ELSE << <<"Please enter a valid email address">> >>)
    \o (IF Len(password) >= MinPasswordLen THEN <<>>
        ELSE << <<"Password must be at least 6 characters">> >>)

FriendlyInvalid    == <<"Invalid email or password. Please try again.">>
FriendlyRegistered == <<"This email is already registered. Please sign in instead.">>

AuthErrorMessageExact(message) ==
    IF message = InvalidLoginCredentials THEN FriendlyInvalid
    ELSE IF message = UserAlreadyRegistered THEN FriendlyRegistered
    ELSE message

\* the message handleAuth shows for an error the collaborator returned
AuthErrorMessage(message) ==
    IF includes(message, InvalidLoginCredentials) THEN FriendlyInvalid
    ELSE IF includes(message, UserAlreadyRegistered) THEN FriendlyRegistered
    ELSE message

LoginShown == Mounted(Cur) = "login" /\ ~loading

SetEmail(E) ==
    /\ LoginShown
    /\ \E e \in E :
          /\ e # login.email
          /\ React([Cur EXCEPT !.login.email = e])
    /\ UNCHANGED <<edits, mountVars, idVars, storeVars>>

SetPassword(P) ==
    /\ LoginShown
    /\ \E p \in P :
          /\ p # login.password
          /\ React([Cur EXCEPT !.login.password = p])
    /\ UNCHANGED <<edits, mountVars, idVars, storeVars>>

\* handleAuth up to its await
HandleAuth ==
    /\ LoginShown /\ ~login.isSubmitting
    /\ \E mode \in {"signin", "signup"} :
          LET errors == AuthSchemaErrors(login.email, login.password)
          IN \/ /\ errors # <<>>
                /\ React(Toast(Cur, "Validation Error", Head(errors)))
             \/ /\ errors = <<>>
                /\ authCall = None
                /\ React([Cur EXCEPT
                            !.login.isSubmitting = TRUE,
                            !.authCall = Some(AuthCall(mode, login.email, login.password))])
    /\ UNCHANGED <<edits, mountVars, idVars, storeVars>>

\* setIsSubmitting(false) reaches the Login instance that started the call only
FinishSubmitting(s, c) ==
    IF c.orphan THEN s ELSE [s EXCEPT !.login.isSubmitting = FALSE]

\* handleAuth after its await
HandleAuthReturn ==
    /\ authCall # None /\ Val(authCall).st = "answered" /\ Val(authCall).mode # "signout"
    /\ LET c  == Val(authCall)
           s0 == [Cur EXCEPT !.authCall = None]
       IN \/ /\ c.result.kind = "error"
             /\ React(FinishSubmitting(
                   Toast(s0, "Authentication Error", AuthErrorMessage(c.result.message)), c))
          \/ /\ c.result.kind = "ok" /\ c.mode = "signup"
             /\ React(FinishSubmitting(
                   Navigate(Toast(s0, "Account created!",
                                  <<"You can now start tracking your books.">>),
                            BooksRoute, FALSE, "Login"), c))
          \/ /\ c.result.kind = "ok" /\ c.mode = "signin"
             /\ React(FinishSubmitting(s0, c))
          \/ /\ c.result.kind = "thrown"
             /\ React(FinishSubmitting(
                   Toast(s0, "Error", <<"Something went wrong. Please try again.">>), c))
    /\ UNCHANGED <<edits, mountVars, idVars, storeVars>>

LoginEffectAlways ==
    /\ Mounted(Cur) = "login"
    /\ React(Navigate(Cur, BooksRoute, FALSE, "Login"))
    /\ UNCHANGED <<edits, mountVars, idVars, storeVars>>

\* Login's effect: a signed-in user is sent to the list
LoginEffect ==
    /\ Mounted(Cur) = "login" /\ user # None
    /\ React(Navigate(Cur, BooksRoute, FALSE, "Login"))
    /\ UNCHANGED <<edits, mountVars, idVars, storeVars>>

----------------------------------------------------------------------------
(* Header, landing page, route guard, the user's own navigation *)

\* every protected page renders the Header, BookDetail except when it renders null
HeaderShown ==
    /\ Mounted(Cur) \in ProtectedPages
    /\ Mounted(Cur) = "detail" => (detail.loading \/ detail.book # None)

\* handleSignOut up to its await
HandleSignOut ==
    /\ HeaderShown /\ authCall = None
    /\ React([Cur EXCEPT !.authCall = Some(AuthCall("signout", "", <<>>))])
    /\ UNCHANGED <<edits, mountVars, idVars, storeVars>>

\* handleSignOut after its await
HandleSignOutReturn ==
    /\ authCall # None /\ Val(authCall).st = "answered" /\ Val(authCall).mode = "signout"
    /\ React(Navigate([Cur EXCEPT !.authCall = None], LoginRoute, FALSE, "Header"))
    /\ UNCHANGED <<edits, mountVars, idVars, storeVars>>

\* Index's effect
IndexEffect ==
    /\ Mounted(Cur) = "index" /\ ~loading
    /\ React(Navigate(Cur, IF user # None THEN BooksRoute ELSE LoginRoute, FALSE, "Index"))
    /\ UNCHANGED <<edits, mountVars, idVars, storeVars>>

\* ProtectedRoute rendered <Navigate to="/login" replace />
GuardRedirect ==
    /\ Mounted(Cur) = "redirect"
    /\ React(Navigate(Cur, LoginRoute, TRUE, "ProtectedRoute"))
    /\ UNCHANGED <<edits, mountVars, idVars, storeVars>>

\* the user follows a link or enters an address
UserNavigate(R) ==
    /\ authPc = "ready"
    /\ \E r \in R :
          /\ r # route
          /\ React(Navigate(Cur, r, FALSE, "user"))
    /\ UNCHANGED <<edits, mountVars, idVars, storeVars>>

----------------------------------------------------------------------------
(* The application opened at any address, with or without a stored session *)
InitClient ==
    /\ loading = TRUE /\ user = None /\ session = None
    /\ authPc = "mount" /\ subscribed = FALSE
    /\ sessionReq = [st |-> "none", payload |-> None]
    /\ authEvents = <<>>
    /\ accounts = {[email |-> Ann, password |-> PwGood]}
    /\ authCall = None
    /\ lastNav = [by |-> "user", replace |-> FALSE]
    /\ login = InitLogin /\ list = InitList /\ detail = InitDetail
    /\ create = InitCreate /\ form = NoForm
    /\ reqs = <<>> /\ toast = NoToast
    /\ edits = 0

AuthRoutes == {IndexRoute, LoginRoute, BooksRoute}

InitAuth ==
    /\ InitClient
    /\ route \in AuthRoutes
    /\ collabSession \in {None, Some(SessionOf("u1"))}
    /\ rows = <<>> /\ nextId = 1

NextAuth ==
    \/ AuthSubscribe \/ AuthGetSession \/ CollabGetSession \/ GetSessionThen
    \/ OnAuthStateChange \/ CollabAuthChange \/ CollabNotify
    \/ SetEmail({Ann, Bob}) \/ SetPassword({PwGood}) \/ HandleAuth
    \/ CollabSignIn \/ CollabSignUp \/ CollabAuthFails({RateLimited}) \/ HandleAuthReturn
    \/ HandleSignOut \/ CollabSignOut \/ HandleSignOutReturn
    \/ LoginEffect \/ IndexEffect \/ GuardRedirect \/ UserNavigate(AuthRoutes)

SpecAuth == InitAuth /\ [][NextAuth]_vars

----------------------------------------------------------------------------
(* The record store, table "books", as the client sees it *)

\* the identity the collaborator sees on a request: the session of the moment
Caller == IF collabSession = None THEN None ELSE Some(Val(collabSession).user.id)

Request(op, view, id, data, payload) ==
    [op |-> op, view |-> view, orphan |-> FALSE, as |-> Caller, id |-> id,
     data |-> data, payload |-> payload, st |-> "sent",
     result |-> [kind |-> "ok", data |-> None]]

Answered(r, kind, data) ==
    [r EXCEPT !.st = "answered", !.result = [kind |-> kind, data |-> data]]

ReplaceAt(s, i, v) == [s EXCEPT ![i] = v]
RemoveAt(s, i) == SubSeq(s, 1, i - 1) \o SubSeq(s, i + 1, Len(s))
Reverse(s) == [i \in 1..Len(s) |-> s[Len(s) + 1 - i]]

RECURSIVE SelectRows(_, _)
SelectRows(s, caller) ==
    IF s = <<>> THEN <<>>
    ELSE IF Some(Head(s).user_id) = caller
         THEN <<Head(s)>> \o SelectRows(Tail(s), caller)
         ELSE SelectRows(Tail(s), caller)

\* row-level security: a caller sees and changes its own rows only
Visible(caller) == SelectRows(rows, caller)

\* select('id, title, author, status, rating, is_favorite, reading_progress')
CardColumns(r) ==
    [id |-> r.id, title |-> r.title, author |-> r.author, status |-> r.status,
     rating |-> r.rating, is_favorite |-> r.is_favorite,
     reading_progress |-> r.reading_progress]

\* .order('created_at', { ascending: false }); rows are kept in insertion order
NewestFirst(s) == Reverse([i \in 1..Len(s) |-> CardColumns(s[i])])

\* any request can fail at the collaborator or on the way
StoreFails ==
    /\ \E i \in 1..Len(reqs) :
          /\ reqs[i].st = "sent"
          /\ reqs' = ReplaceAt(reqs, i, Answered(reqs[i], "error", None))
    /\ UNCHANGED <<edits, authVars, navVars, viewVars, authCall, toast, mountVars, idVars, storeVars>>

StoreSelectList ==
    /\ \E i \in 1..Len(reqs) :
          /\ reqs[i].st = "sent" /\ reqs[i].op = "list"
          /\ reqs' = ReplaceAt(reqs, i,
                Answered(reqs[i], "ok", Some(NewestFirst(Visible(reqs[i].as)))))
    /\ UNCHANGED <<edits, authVars, navVars, viewVars, authCall, toast, mountVars, idVars, storeVars>>

----------------------------------------------------------------------------
(* Books: the list view *)

\* useEffect(() => { if (user) fetchBooks() }, [user]), up to fetchBooks' await
BooksEffect ==
    /\ Mounted(Cur) = "books" /\ list.fetchDue
    /\ \/ /\ user # None /\ Len(reqs) < MaxReqs
          /\ React([Cur EXCEPT !.list.fetchDue = FALSE,
                               !.reqs = Append(@, Request("list", "books", 0, None, None))])
       \/ /\ user = None
          /\ React([Cur EXCEPT !.list.fetchDue = FALSE])
    /\ UNCHANGED <<edits, mountVars, idVars, storeVars>>

SetBooks(s, r, data) == IF r.orphan THEN s ELSE [s EXCEPT !.list.books = data]
SetListLoading(s, r) == IF r.orphan THEN s ELSE [s EXCEPT !.list.loading = FALSE]

FetchBooksKeepsSpinner(s, r) ==
    IF r.result.kind = "ok"
    THEN SetListLoading(SetBooks(s, r, Val(r.result.data)), r)
    ELSE Toast(s, "Error", <<"Failed to load books. Please try again.">>)

\* fetchBooks after its await
FetchBooksHandler(s, r) ==
    IF r.result.kind = "ok"
    THEN SetListLoading(SetBooks(s, r, Val(r.result.data)), r)
    ELSE SetListLoading(
            Toast(s, "Error", <<"Failed to load books. Please try again.">>), r)

FetchBooksReturn(i) ==
    /\ i \in 1..Len(reqs) /\ reqs[i].st = "answered" /\ reqs[i].op = "list"
    /\ React(FetchBooksHandler([Cur EXCEPT !.reqs = RemoveAt(@, i)], reqs[i]))
    /\ UNCHANGED <<edits, mountVars, idVars, storeVars>>

SetSearchQuery(Q) ==
    /\ Mounted(Cur) = "books"
    /\ \E q \in Q :
          /\ q # list.searchQuery
          /\ React([Cur EXCEPT !.list.searchQuery = q])
    /\ UNCHANGED <<edits, mountVars, idVars, storeVars>>

StatusFilters == {"all"} \cup Statuses

SetStatusFilter ==
    /\ Mounted(Cur) = "books"
    /\ \E f \in StatusFilters :
          /\ f # list.statusFilter
          /\ React([Cur EXCEPT !.list.statusFilter = f])
    /\ UNCHANGED <<edits, mountVars, idVars, storeVars>>

matchesSearchCaseSensitive(book, searchQuery) ==
    \/ includes(book.title, searchQuery)
    \/ IF book.author = None THEN FALSE
       ELSE includes(Val(book.author), searchQuery)

matchesSearch(book, searchQuery) ==
    \/ includes(toLowerCase(book.title), toLowerCase(searchQuery))
    \/ IF book.author = None THEN FALSE
       ELSE includes(toLowerCase(Val(book.author)), toLowerCase(searchQuery))

matchesStatus(book, statusFilter) ==
    statusFilter = "all" \/ book.status = statusFilter

RECURSIVE filteredBooksEither(_, _, _)
filteredBooksEither(books, searchQuery, statusFilter) ==
    IF books = <<>> THEN <<>>
    ELSE (IF matchesSearch(Head(books), searchQuery)
             \/ matchesStatus(Head(books), statusFilter)
          THEN <<Head(books)>> ELSE <<>>)
         \o filteredBooksEither(Tail(books), searchQuery, statusFilter)

RECURSIVE filteredBooks(_, _, _)
filteredBooks(books, searchQuery, statusFilter) ==
    IF books = <<>> THEN <<>>
    ELSE (IF matchesSearch(Head(books), searchQuery)
             /\ matchesStatus(Head(books), statusFilter)
          THEN <<Head(books)>> ELSE <<>>)
         \o filteredBooks(Tail(books), searchQuery, statusFilter)

\* what the list view shows
Shown == filteredBooks(list.books, list.searchQuery, list.statusFilter)

----------------------------------------------------------------------------
(* BookForm: the draft and its controls *)

SliderValuesPastMax == {k * SliderStep : k \in 0..((SliderMax \div SliderStep) + 1)}
SliderValues == {k * SliderStep : k \in 0..(SliderMax \div SliderStep)}
Stars        == 1..NumStars

\* a control's onChange: setFormData({ ...formData, field: value })
EditDraft(draft) ==
    /\ form.host # "none" /\ edits < MaxEdits
    /\ draft # form.formData
    /\ edits' = edits + 1
    /\ React([Cur EXCEPT !.form.formData = draft])
    /\ UNCHANGED <<mountVars, idVars, storeVars>>

SetTitle(T)  == \E v \in T : EditDraft([form.formData EXCEPT !.title = v])
SetAuthor(T) == \E v \in T : EditDraft([form.formData EXCEPT !.author = v])
SetReview(T) == \E v \in T : EditDraft([form.formData EXCEPT !.review = v])
SetStatusResetsProgress ==
    \E v \in Statuses :
       EditDraft([form.formData EXCEPT !.status = v,
                     !.reading_progress = IF v = "reading" THEN @ ELSE 0])

SetStatus    == \E v \in Statuses : EditDraft([form.formData EXCEPT !.status = v])
SetFavorite  == EditDraft([form.formData EXCEPT !.is_favorite = ~@])
SetRatingToggles(R) ==
    \E v \in R : EditDraft([form.formData EXCEPT
                               !.rating = IF @ = Some(v) THEN None ELSE Some(v)])

\* StarRating calls onChange(star) for the star clicked
SetRating(R) == \E v \in R : EditDraft([form.formData EXCEPT !.rating = Some(v)])
\* {formData.status === 'reading' && (<Slider ... />)}
SliderShown(draft) == draft.status = "reading"

SetProgress(P) ==
    /\ SliderShown(form.formData)
    /\ \E v \in P : EditDraft([form.formData EXCEPT !.reading_progress = v])

\* data.author.trim() || null
TrimOrNull(s) == IF trim(s) = <<>> THEN None ELSE Some(trim(s))

KeepBlankAuthor(data) ==
    [title |-> trim(data.title), author |-> Some(trim(data.author)),
     status |-> data.status, rating |-> data.rating,
     review |-> TrimOrNull(data.review), is_favorite |-> data.is_favorite,
     reading_progress |-> data.reading_progress]

\* the editable columns NewBook and BookDetail send
EditableColumns(data) ==
    [title |-> trim(data.title), author |-> TrimOrNull(data.author),
     status |-> data.status, rating |-> data.rating,
     review |-> TrimOrNull(data.review), is_favorite |-> data.is_favorite,
     reading_progress |-> data.reading_progress]

NewBookSubmitUnguarded(s, data) ==
    [s EXCEPT !.create.isLoading = TRUE,
              !.reqs = Append(@, Request("insert", "new", 0, Some(data),
                  Some([user_id |-> IF s.user = None THEN "" ELSE Val(s.user).id,
                        cols |-> EditableColumns(data)])))]

\* NewBook.handleSubmit up to its await
NewBookSubmit(s, data) ==
    IF s.user = None THEN s
    ELSE [s EXCEPT !.create.isLoading = TRUE,
                   !.reqs = Append(@, Request("insert", "new", 0, Some(data),
                       Some([user_id |-> Val(s.user).id, cols |-> EditableColumns(data)])))]

HandleUpdateSharedFlag(s, data) ==
    [s EXCEPT !.detail.isUpdating = TRUE, !.detail.isDeleting = TRUE,
              !.reqs = Append(@, Request("update", "detail", s.route.id, Some(data),
                  Some([user_id |-> "", cols |-> EditableColumns(data)])))]

\* BookDetail.handleUpdate up to its await
HandleUpdate(s, data) ==
    [s EXCEPT !.detail.isUpdating = TRUE,
              !.reqs = Append(@, Request("update", "detail", s.route.id, Some(data),
                  Some([user_id |-> "", cols |-> EditableColumns(data)])))]

\* the submit button is disabled while the host's flag is set
SubmitEnabled ==
    \/ form.host = "new" /\ ~create.isLoading
    \/ form.host = "detail" /\ ~detail.isUpdating

SubmitUnchecked(s) ==
    IF s.form.host = "new" THEN NewBookSubmit(s, s.form.formData)
    ELSE HandleUpdate(s, s.form.formData)

\* BookForm.handleSubmit: validate, then await onSubmit(formData)
BookFormSubmit(s) ==
    IF trim(s.form.formData.title) = <<>>
    THEN Toast(s, "Title required", <<"Please enter a book title.">>)
    ELSE IF s.form.host = "new" THEN NewBookSubmit(s, s.form.formData)
    ELSE HandleUpdate(s, s.form.formData)

FormSubmit ==
    /\ SubmitEnabled
    /\ trim(form.formData.title) # <<>> => Len(reqs) < MaxReqs
    /\ React(BookFormSubmit(Cur))
    /\ UNCHANGED <<edits, mountVars, idVars, storeVars>>

PageHandlerRethrows(r) == IF r.result.kind = "ok" THEN "fulfilled" ELSE "rejected"

\* how the promise of NewBook.handleSubmit / BookDetail.handleUpdate settles:
\* the throw on a collaborator error is inside the handler's own try / catch
PageHandlerOutcome(r) == "fulfilled"

\* BookForm.handleSubmit after `await onSubmit(formData)`
AfterOnSubmit(s, outcome) ==
    IF outcome = "rejected"
    THEN Toast(s, "Error", <<"Something went wrong. Please try again.">>)
    ELSE s

\* the Cancel button
FormCancel ==
    /\ form.host # "none"
    /\ React(Navigate(Cur, BooksRoute, FALSE, "BookForm"))
    /\ UNCHANGED <<edits, mountVars, idVars, storeVars>>

----------------------------------------------------------------------------
(* NewBook: the create view *)

NewRow(r) ==
    [id |-> nextId, user_id |-> Val(r.payload).user_id, created_at |-> nextId,
     title |-> Val(r.payload).cols.title, author |-> Val(r.payload).cols.author,
     status |-> Val(r.payload).cols.status, rating |-> Val(r.payload).cols.rating,
     review |-> Val(r.payload).cols.review,
     is_favorite |-> Val(r.payload).cols.is_favorite,
     reading_progress |-> Some(Val(r.payload).cols.reading_progress)]

\* insert(record): accepted for the caller's own user_id while there is room
StoreInsert ==
    /\ \E i \in 1..Len(reqs) :
          /\ reqs[i].st = "sent" /\ reqs[i].op = "insert"
          /\ \/ /\ reqs[i].as = Some(Val(reqs[i].payload).user_id)
                /\ Len(rows) < MaxRows
                /\ rows' = Append(rows, NewRow(reqs[i]))
                /\ nextId' = nextId + 1
                /\ reqs' = ReplaceAt(reqs, i, Answered(reqs[i], "ok", None))
             \/ /\ ~(reqs[i].as = Some(Val(reqs[i].payload).user_id) /\ Len(rows) < MaxRows)
                /\ reqs' = ReplaceAt(reqs, i, Answered(reqs[i], "error", None))
                /\ UNCHANGED storeVars
    /\ UNCHANGED <<edits, authVars, navVars, viewVars, authCall, toast, mountVars, idVars>>

SetIsLoading(s, r)  == IF r.orphan THEN s ELSE [s EXCEPT !.create.isLoading = FALSE]

NewBookHandlerRetries(s, r) ==
    IF r.result.kind = "ok"
    THEN SetIsLoading(
            Navigate(Toast(s, "Book added!",
                           <<"\"">> \o Val(r.data).title
                               \o <<"\" has been added to your library.">>),
                     BooksRoute, FALSE, "NewBook"), r)
    ELSE [Toast(s, "Error", <<"Failed to add book. Please try again.">>)
             EXCEPT !.reqs = Append(@, [r EXCEPT !.st = "sent"])]

\* NewBook.handleSubmit after its await
NewBookHandler(s, r) ==
    IF r.result.kind = "ok"
    THEN SetIsLoading(
            Navigate(Toast(s, "Book added!",
                           <<"\"">> \o Val(r.data).title
                               \o <<"\" has been added to your library.">>),
                     BooksRoute, FALSE, "NewBook"), r)
    ELSE SetIsLoading(
            Toast(s, "Error", <<"Failed to add book. Please try again.">>), r)

NewBookReturn(i) ==
    /\ i \in 1..Len(reqs) /\ reqs[i].st = "answered" /\ reqs[i].op = "insert"
    /\ React(AfterOnSubmit(NewBookHandler([Cur EXCEPT !.reqs = RemoveAt(@, i)], reqs[i]),
                           PageHandlerOutcome(reqs[i])))
    /\ UNCHANGED <<edits, mountVars, idVars, storeVars>>

----------------------------------------------------------------------------
(* BookDetail: the detail / edit view *)

\* useEffect(() => { if (user && id) fetchBook() }, [user, id]), up to the await
DetailEffect ==
    /\ Mounted(Cur) = "detail" /\ detail.fetchDue
    /\ Len(reqs) < MaxReqs
    /\ React([Cur EXCEPT !.detail.fetchDue = FALSE,
                         !.reqs = Append(@, Request("detail", "detail", route.id, None, None))])
    /\ UNCHANGED <<edits, mountVars, idVars, storeVars>>

Owned(r) == {i \in 1..Len(rows) : rows[i].id = r.id /\ Some(rows[i].user_id) = r.as}

\* select('*').eq('id', id).maybeSingle()
StoreSelectOne ==
    /\ \E i \in 1..Len(reqs) :
          /\ reqs[i].st = "sent" /\ reqs[i].op = "detail"
          /\ reqs' = ReplaceAt(reqs, i,
                Answered(reqs[i], "ok",
                         IF Owned(reqs[i]) = {} THEN None
                         ELSE Some(rows[CHOOSE k \in Owned(reqs[i]) : TRUE])))
    /\ UNCHANGED <<edits, authVars, navVars, viewVars, authCall, toast, mountVars, idVars, storeVars>>

SetBook(s, r, data)    == IF r.orphan THEN s ELSE [s EXCEPT !.detail.book = Some(data)]
SetDetailLoading(s, r) == IF r.orphan THEN s ELSE [s EXCEPT !.detail.loading = FALSE]
SetIsUpdating(s, r)    == IF r.orphan THEN s ELSE [s EXCEPT !.detail.isUpdating = FALSE]
SetIsDeleting(s, r)    == IF r.orphan THEN s ELSE [s EXCEPT !.detail.isDeleting = FALSE]

FetchBookNotFoundAsError(s, r) ==
    IF r.result.kind = "ok" /\ r.result.data # None
    THEN SetDetailLoading(SetBook(s, r, Val(r.result.data)), r)
    ELSE SetDetailLoading(
            Navigate(Toast(s, "Error", <<"Failed to load book. Please try again.">>),
                     BooksRoute, FALSE, "BookDetail"), r)

\* fetchBook after its await
FetchBookHandler(s, r) ==
    IF r.result.kind = "ok" /\ r.result.data = None
    THEN SetDetailLoading(
            Navigate(Toast(s, "Book not found",
                           <<"This book does not exist or you do not have access.">>),
                     BooksRoute, FALSE, "BookDetail"), r)
    ELSE IF r.result.kind = "ok"
    THEN SetDetailLoading(SetBook(s, r, Val(r.result.data)), r)
    ELSE SetDetailLoading(
            Navigate(Toast(s, "Error", <<"Failed to load book. Please try again.">>),
                     BooksRoute, FALSE, "BookDetail"), r)

FetchBookReturn(i) ==
    /\ i \in 1..Len(reqs) /\ reqs[i].st = "answered" /\ reqs[i].op = "detail"
    /\ React(FetchBookHandler([Cur EXCEPT !.reqs = RemoveAt(@, i)], reqs[i]))
    /\ UNCHANGED <<edits, mountVars, idVars, storeVars>>

UpdateAppendsReview(row, cols) ==
    [row EXCEPT !.title = cols.title, !.author = cols.author, !.status = cols.status,
                !.rating = cols.rating,
                !.review = IF cols.review = None THEN @
                           ELSE IF @ = None THEN cols.review
                           ELSE Some(Val(@) \o Val(cols.review)),
                !.is_favorite = cols.is_favorite,
                !.reading_progress = Some(cols.reading_progress)]

UpdateRestamps(row, cols) ==
    [row EXCEPT !.title = cols.title, !.author = cols.author, !.status = cols.status,
                !.rating = cols.rating, !.review = cols.review,
                !.is_favorite = cols.is_favorite,
                !.reading_progress = Some(cols.reading_progress),
                !.created_at = @ + 1]

\* update({...}): the columns sent replace the row's
UpdatedRow(row, cols) ==
    [row EXCEPT !.title = cols.title, !.author = cols.author, !.status = cols.status,
                !.rating = cols.rating, !.review = cols.review,
                !.is_favorite = cols.is_favorite,
                !.reading_progress = Some(cols.reading_progress)]

\* update(...).eq('id', id) on the rows the caller owns
ApplyUpdate(s, r) ==
    [k \in 1..Len(s) |->
        IF s[k].id = r.id /\ Some(s[k].user_id) = r.as
        THEN UpdatedRow(s[k], Val(r.payload).cols) ELSE s[k]]

StoreUpdate ==
    /\ \E i \in 1..Len(reqs) :
          /\ reqs[i].st = "sent" /\ reqs[i].op = "update"
          /\ rows' = ApplyUpdate(rows, reqs[i])
          /\ reqs' = ReplaceAt(reqs, i, Answered(reqs[i], "ok", None))
    /\ UNCHANGED <<edits, authVars, navVars, viewVars, authCall, toast, mountVars, idVars, nextId>>

UpdateHandlerLeavesOnFailure(s, r) ==
    IF r.result.kind = "ok"
    THEN SetIsUpdating(
            Navigate(Toast(s, "Book updated!", <<"Your changes have been saved.">>),
                     BooksRoute, FALSE, "BookDetail"), r)
    ELSE SetIsUpdating(
            Navigate(Toast(s, "Error", <<"Failed to update book. Please try again.">>),
                     BooksRoute, FALSE, "BookDetail"), r)

\* handleUpdate after its await
UpdateHandler(s, r) ==
    IF r.result.kind = "ok"
    THEN SetIsUpdating(
            Navigate(Toast(s, "Book updated!", <<"Your changes have been saved.">>),
                     BooksRoute, FALSE, "BookDetail"), r)
    ELSE SetIsUpdating(
            Toast(s, "Error", <<"Failed to update book. Please try again.">>), r)

UpdateReturn(i) ==
    /\ i \in 1..Len(reqs) /\ reqs[i].st = "answered" /\ reqs[i].op = "update"
    /\ React(AfterOnSubmit(UpdateHandler([Cur EXCEPT !.reqs = RemoveAt(@, i)], reqs[i]),
                           PageHandlerOutcome(reqs[i])))
    /\ UNCHANGED <<edits, mountVars, idVars, storeVars>>

\* the trash button opens the confirmation dialog
OpenDialog ==
    /\ FormHost(Mounted(Cur), detail) = "detail" /\ ~detail.dialogOpen
    /\ React([Cur EXCEPT !.detail.dialogOpen = TRUE])
    /\ UNCHANGED <<edits, mountVars, idVars, storeVars>>

CancelDialog ==
    /\ FormHost(Mounted(Cur), detail) = "detail" /\ detail.dialogOpen
    /\ React([Cur EXCEPT !.detail.dialogOpen = FALSE])
    /\ UNCHANGED <<edits, mountVars, idVars, storeVars>>

\* handleDelete up to its await; the dialog's action button closes the dialog
HandleDelete(s) ==
    [s EXCEPT !.detail.isDeleting = TRUE, !.detail.dialogOpen = FALSE,
              !.reqs = Append(@, Request("delete", "detail", s.route.id, None, None))]

DeleteWithoutDialog ==
    /\ FormHost(Mounted(Cur), detail) = "detail"
    /\ ~detail.isDeleting
    /\ Len(reqs) < MaxReqs
    /\ React(HandleDelete(Cur))
    /\ UNCHANGED <<edits, mountVars, idVars, storeVars>>

\* the dialog's action button is disabled while isDeleting
ConfirmEnabled == detail.dialogOpen /\ ~detail.isDeleting

ConfirmDelete ==
    /\ FormHost(Mounted(Cur), detail) = "detail"
    /\ ConfirmEnabled
    /\ Len(reqs) < MaxReqs
    /\ React(HandleDelete(Cur))
    /\ UNCHANGED <<edits, mountVars, idVars, storeVars>>

ApplyDeleteNothing(s, r) == s

\* delete().eq('id', id) on the rows the caller owns
ApplyDelete(s, r) ==
    SelectSeq(s, LAMBDA row : ~(row.id = r.id /\ Some(row.user_id) = r.as))

StoreDelete ==
    /\ \E i \in 1..Len(reqs) :
          /\ reqs[i].st = "sent" /\ reqs[i].op = "delete"
          /\ rows' = ApplyDelete(rows, reqs[i])
          /\ reqs' = ReplaceAt(reqs, i, Answered(reqs[i], "ok", None))
    /\ UNCHANGED <<edits, authVars, navVars, viewVars, authCall, toast, mountVars, idVars, nextId>>

DeleteHandlerNoFinally(s, r) ==
    IF r.result.kind = "ok"
    THEN SetIsDeleting(
            Navigate(Toast(s, "Book deleted",
                           <<"The book has been removed from your library.">>),
                     BooksRoute, FALSE, "BookDetail"), r)
    ELSE Toast(s, "Error", <<"Failed to delete book. Please try again.">>)

\* handleDelete after its await
DeleteHandler(s, r) ==
    IF r.result.kind = "ok"
    THEN SetIsDeleting(
            Navigate(Toast(s, "Book deleted",
                           <<"The book has been removed from your library.">>),
                     BooksRoute, FALSE, "BookDetail"), r)
    ELSE SetIsDeleting(
            Toast(s, "Error", <<"Failed to delete book. Please try again.">>), r)

DeleteReturn(i) ==
    /\ i \in 1..Len(reqs) /\ reqs[i].st = "answered" /\ reqs[i].op = "delete"
    /\ React(DeleteHandler([Cur EXCEPT !.reqs = RemoveAt(@, i)], reqs[i]))
    /\ UNCHANGED <<edits, mountVars, idVars, storeVars>>

----------------------------------------------------------------------------
(* Sample data *)
Dune    == <<"D", "u", "n", "e">>
Hobbit  == <<"H", "o", "b", "b", "i", "t">>
Herbert == <<"H", "e", "r", "b", "e", "r", "t">>

Row(id, uid, title, author, status) ==
    [id |-> id, user_id |-> uid, created_at |-> id, title |-> title,
     author |-> author, status |-> status, rating |-> None, review |-> None,
     is_favorite |-> FALSE, reading_progress |-> Some(0)]

\* a resolved session: the state the provider reaches for a stored session
SignedIn(u) ==
    /\ loading = FALSE /\ user = Some(UserObj(u)) /\ session = Some(SessionOf(u))
    /\ authPc = "ready" /\ subscribed = TRUE
    /\ sessionReq = [st |-> "delivered", payload |-> Some(SessionOf(u))]
    /\ collabSession = Some(SessionOf(u))
    /\ authEvents = <<>>
    /\ accounts = {[email |-> Ann, password |-> PwGood]}
    /\ authCall = None
    /\ lastNav = [by |-> "user", replace |-> FALSE]
    /\ login = InitLogin
    /\ reqs = <<>> /\ toast = NoToast
    /\ edits = 0

----------------------------------------------------------------------------
(* The list view over every small collection, query and filter *)
ListTitles  == {Dune, Hobbit}
ListAuthors == {None, Some(Herbert), Some(<<"D">>)}
ListOwners  == {"u1", "u2"}
ListRows(id) ==
    {Row(id, u, t, a, s) : u \in ListOwners, t \in ListTitles,
                           a \in ListAuthors, s \in {"reading", "read"}}
ListStores ==
    {<<>>} \cup {<<r>> : r \in ListRows(1)}
           \cup {<<r1, r2>> : r1 \in ListRows(1), r2 \in ListRows(2)}
Queries ==
    {<<>>, <<"h", "e", "r", "b">>, <<"H", "E", "R", "B">>, <<"D">>, <<"u", "n">>,
     <<"b", "b">>, <<"x">>}

InitList0 ==
    /\ SignedIn("u1")
    /\ route = BooksRoute
    /\ list = [InitList EXCEPT !.fetchDue = TRUE]
    /\ detail = InitDetail /\ create = InitCreate /\ form = NoForm
    /\ rows \in ListStores /\ nextId = Len(rows) + 1

NextList ==
    \/ BooksEffect \/ StoreSelectList \/ StoreFails
    \/ (\E i \in 1..MaxReqs : FetchBooksReturn(i))
    \/ SetSearchQuery(Queries) \/ SetStatusFilter

SpecList == InitList0 /\ [][NextList]_vars

\* the sign-in view alone, with every credential and every error message
InitLogin0 ==
    /\ InitClient
    /\ route = LoginRoute
    /\ collabSession = None
    /\ rows = <<>> /\ nextId = 1

NextLogin ==
    \/ AuthSubscribe \/ AuthGetSession \/ CollabGetSession \/ GetSessionThen
    \/ OnAuthStateChange
    \/ SetEmail(Emails) \/ SetPassword(Passwords) \/ HandleAuth
    \/ CollabSignIn \/ CollabSignUp \/ CollabAuthFails(OtherMessages) \/ HandleAuthReturn
    \/ HandleSignOut \/ CollabSignOut \/ HandleSignOutReturn
    \/ LoginEffect \/ GuardRedirect

SpecLogin == InitLogin0 /\ [][NextLogin]_vars

----------------------------------------------------------------------------
(* The create view with a typed draft, followed through insert and fetch *)
SpDuneSp == <<Space>> \o Dune \o <<Space>>
Ok2      == <<"o", "k">>

DraftTitles  == {<<Space>>, Dune, SpDuneSp}
DraftAuthors == {<<>>, <<Space>>, <<Space, "H">>}
DraftReviews == {<<>>, <<Space, Space>>, Ok2 \o <<Space>>}
DraftRest ==
    {[status |-> "want_to_read", rating |-> None, is_favorite |-> FALSE,
      reading_progress |-> 0],
     [status |-> "reading", rating |-> Some(1), is_favorite |-> TRUE,
      reading_progress |-> SliderMax \div 2],
     [status |-> "read", rating |-> Some(NumStars), is_favorite |-> FALSE,
      reading_progress |-> SliderMax]}
Drafts ==
    {[title |-> t, author |-> a, status |-> x.status, rating |-> x.rating,
      review |-> v, is_favorite |-> x.is_favorite,
      reading_progress |-> x.reading_progress] :
        t \in DraftTitles, a \in DraftAuthors, v \in DraftReviews, x \in DraftRest}

InitCreate0 ==
    /\ SignedIn("u1")
    /\ route = NewRoute
    /\ list = InitList /\ detail = InitDetail /\ create = InitCreate
    /\ form \in {[host |-> "new", formData |-> d] : d \in Drafts}
    /\ rows = <<>> /\ nextId = 1

NextCreate ==
    \/ FormSubmit \/ FormCancel
    \/ StoreInsert \/ StoreFails \/ (\E i \in 1..MaxReqs : NewBookReturn(i))
    \/ BooksEffect \/ StoreSelectList \/ (\E i \in 1..MaxReqs : FetchBooksReturn(i))
    \/ UserNavigate({DetailRoute(1)})
    \/ DetailEffect \/ StoreSelectOne \/ (\E i \in 1..MaxReqs : FetchBookReturn(i))
    \/ StoreUpdate \/ (\E i \in 1..MaxReqs : UpdateReturn(i))

SpecCreate == InitCreate0 /\ [][NextCreate]_vars

(* The library of one reader: list, detail, edit and delete *)
OwnRow     == Row(1, "u1", Dune, Some(Herbert), "reading")
ForeignRow == Row(2, "u2", Hobbit, None, "read")
BookRoutes == {BooksRoute, DetailRoute(1), DetailRoute(2)}

InitBooks ==
    /\ SignedIn("u1")
    /\ route = BooksRoute
    /\ list = [InitList EXCEPT !.fetchDue = TRUE]
    /\ detail = InitDetail /\ create = InitCreate /\ form = NoForm
    /\ rows = <<OwnRow, ForeignRow>> /\ nextId = Len(rows) + 1

\* a reader who waits for the page to settle before going elsewhere
UserNavigateSettled(R) == reqs = <<>> /\ UserNavigate(R)

NextBooks ==
    \/ UserNavigateSettled(BookRoutes)
    \/ BooksEffect \/ StoreSelectList \/ (\E i \in 1..MaxReqs : FetchBooksReturn(i))
    \/ SetTitle({Hobbit}) \/ SetReview({Ok2})
    \/ FormSubmit \/ FormCancel \/ StoreFails
    \/ DetailEffect \/ StoreSelectOne \/ (\E i \in 1..MaxReqs : FetchBookReturn(i))
    \/ StoreUpdate \/ (\E i \in 1..MaxReqs : UpdateReturn(i))
    \/ OpenDialog \/ CancelDialog \/ ConfirmDelete
    \/ StoreDelete \/ (\E i \in 1..MaxReqs : DeleteReturn(i))

SpecBooks == InitBooks /\ [][NextBooks]_vars

(* The form in both of its hosts, with every control *)
InitForm ==
    /\ SignedIn("u1")
    /\ route \in {NewRoute, DetailRoute(1)}
    /\ list = InitList /\ create = InitCreate
    /\ detail = (IF route = NewRoute THEN InitDetail
                 ELSE [InitDetail EXCEPT !.fetchDue = TRUE])
    /\ form = (IF route = NewRoute THEN [host |-> "new", formData |-> DefaultDraft]
               ELSE NoForm)
    /\ rows = <<OwnRow>> /\ nextId = Len(rows) + 1

NextForm ==
    \/ DetailEffect \/ StoreSelectOne \/ (\E i \in 1..MaxReqs : FetchBookReturn(i))
    \/ SetTitle({<<>>, <<Space>>, Hobbit}) \/ SetAuthor({<<>>, <<Space>>}) \/ SetReview({Ok2})
    \/ SetStatus \/ SetFavorite \/ SetRating(Stars) \/ SetProgress(SliderValues)
    \/ FormSubmit \/ FormCancel \/ StoreFails
    \/ StoreInsert \/ (\E i \in 1..MaxReqs : NewBookReturn(i))
    \/ StoreUpdate \/ (\E i \in 1..MaxReqs : UpdateReturn(i))
    \/ BooksEffect \/ StoreSelectList \/ (\E i \in 1..MaxReqs : FetchBooksReturn(i))

SpecForm == InitForm /\ [][NextForm]_vars

(* One stored record opened in the edit view, or a typed draft in the create  *)
(* view, with the controls that are not text                                 *)
StoredRows ==
    {[Row(1, "u1", Dune, a, x.status) EXCEPT
         !.rating = x.rating, !.review = v, !.is_favorite = x.is_favorite,
         \* the column is nullable (Book.reading_progress: number | null)
         !.reading_progress = IF n THEN None ELSE Some(x.reading_progress)] :
        a \in {None, Some(Herbert)}, v \in {None, Some(Ok2)}, x \in DraftRest,
        n \in BOOLEAN}

TypedDrafts ==
    {[title |-> Dune, author |-> <<>>, status |-> x.status, rating |-> x.rating,
      review |-> <<>>, is_favorite |-> x.is_favorite,
      reading_progress |-> x.reading_progress] : x \in DraftRest}

InitDraft ==
    /\ SignedIn("u1")
    /\ route \in {NewRoute, DetailRoute(1)}
    /\ list = InitList /\ create = InitCreate
    /\ IF route = NewRoute
       THEN /\ detail = InitDetail
            /\ form \in {[host |-> "new", formData |-> d] : d \in TypedDrafts}
            /\ rows = <<>>
       ELSE /\ detail = [InitDetail EXCEPT !.fetchDue = TRUE]
            /\ form = NoForm
            /\ rows \in {<<r>> : r \in StoredRows}
    /\ nextId = Len(rows) + 1

ProgressPool == {0, SliderMax \div 2, SliderMax - SliderStep}

NextDraft ==
    \/ DetailEffect \/ StoreSelectOne \/ (\E i \in 1..MaxReqs : FetchBookReturn(i))
    \/ SetStatus \/ SetFavorite \/ SetRating(Stars) \/ SetProgress(ProgressPool)
    \/ FormSubmit \/ FormCancel \/ StoreFails
    \/ StoreInsert \/ (\E i \in 1..MaxReqs : NewBookReturn(i))
    \/ StoreUpdate \/ (\E i \in 1..MaxReqs : UpdateReturn(i))
    \/ BooksEffect \/ StoreSelectList \/ (\E i \in 1..MaxReqs : FetchBooksReturn(i))

SpecDraft == InitDraft /\ [][NextDraft]_vars

(* Two records of one reader, and a route that moves between their addresses *)
(* (a history entry chosen from the back-button list) while requests are in  *)
(* flight                                                                    *)
SecondOwnRow == [Row(2, "u1", Hobbit, None, "read") EXCEPT !.rating = Some(NumStars - 1)]
DetailRoutes == {DetailRoute(1), DetailRoute(2)}

InitPair ==
    /\ SignedIn("u1")
    /\ route = DetailRoute(1)
    /\ list = InitList /\ create = InitCreate /\ form = NoForm
    /\ detail = [InitDetail EXCEPT !.fetchDue = TRUE]
    /\ rows = <<OwnRow, SecondOwnRow>> /\ nextId = Len(rows) + 1

NextPair ==
    \/ UserNavigate(DetailRoutes)
    \/ DetailEffect \/ StoreSelectOne \/ (\E i \in 1..MaxReqs : FetchBookReturn(i))
    \/ FormSubmit
    \/ StoreUpdate \/ (\E i \in 1..MaxReqs : UpdateReturn(i))
    \/ OpenDialog \/ CancelDialog \/ ConfirmDelete
    \/ StoreDelete \/ (\E i \in 1..MaxReqs : DeleteReturn(i))

SpecPair == InitPair /\ [][NextPair]_vars

(* The application at any address once the session is resolved, signed in   *)
(* or signed out, left to its own redirects                                 *)
SignedOut ==
    /\ loading = FALSE /\ user = None /\ session = None
    /\ authPc = "ready" /\ subscribed = TRUE
    /\ sessionReq = [st |-> "delivered", payload |-> None]
    /\ collabSession = None
    /\ authEvents = <<>>
    /\ accounts = {[email |-> Ann, password |-> PwGood]}
    /\ authCall = None
    /\ lastNav = [by |-> "user", replace |-> FALSE]
    /\ login = InitLogin
    /\ reqs = <<>> /\ toast = NoToast
    /\ edits = 0

InitRedirect ==
    /\ SignedIn("u1") \/ SignedOut
    /\ route \in Routes
    /\ list = (IF route = BooksRoute /\ user # None
               THEN [InitList EXCEPT !.fetchDue = TRUE] ELSE InitList)
    /\ detail = (IF route.page = "detail" /\ user # None
                 THEN [InitDetail EXCEPT !.fetchDue = TRUE] ELSE InitDetail)
    /\ create = InitCreate
    /\ form = (IF route = NewRoute /\ user # None
               THEN [host |-> "new", formData |-> DefaultDraft] ELSE NoForm)
    /\ rows = <<>> /\ nextId = 1

NextRedirect ==
    \/ IndexEffect \/ LoginEffect \/ GuardRedirect
    \/ SetEmail({Ann, Bob}) \/ SetPassword({PwGood}) \/ HandleAuth
    \/ CollabSignIn \/ CollabSignUp \/ CollabAuthFails({RateLimited}) \/ HandleAuthReturn
    \/ OnAuthStateChange
    \/ BooksEffect \/ StoreSelectList \/ (\E i \in 1..MaxReqs : FetchBooksReturn(i))
    \/ DetailEffect \/ StoreSelectOne \/ (\E i \in 1..MaxReqs : FetchBookReturn(i))

\* an effect scheduled by a render runs, and <Navigate /> navigates when rendered
SpecRedirect ==
    /\ InitRedirect /\ [][NextRedirect]_vars
    /\ WF_vars(IndexEffect) /\ WF_vars(LoginEffect) /\ WF_vars(GuardRedirect)

(* Every operation that reaches a collaborator: the sign-in view opened      *)
(* signed out, and the create and edit views opened signed in               *)
InitOps == InitLogin0 \/ InitForm

NextOps ==
    \/ AuthSubscribe \/ AuthGetSession \/ CollabGetSession \/ GetSessionThen
    \/ OnAuthStateChange
    \/ SetEmail({Ann, Bob}) \/ SetPassword({PwGood, PwWrong}) \/ HandleAuth
    \/ CollabSignIn \/ CollabSignUp \/ CollabAuthFails({RateLimited}) \/ HandleAuthReturn
    \/ LoginEffect
    \/ BooksEffect \/ StoreSelectList \/ (\E i \in 1..MaxReqs : FetchBooksReturn(i))
    \/ DetailEffect \/ StoreSelectOne \/ (\E i \in 1..MaxReqs : FetchBookReturn(i))
    \/ SetTitle({Hobbit}) \/ FormSubmit \/ FormCancel \/ StoreFails
    \/ StoreInsert \/ (\E i \in 1..MaxReqs : NewBookReturn(i))
    \/ StoreUpdate \/ (\E i \in 1..MaxReqs : UpdateReturn(i))
    \/ OpenDialog \/ CancelDialog \/ ConfirmDelete
    \/ StoreDelete \/ (\E i \in 1..MaxReqs : DeleteReturn(i))

SpecOps == InitOps /\ [][NextOps]_vars

----------------------------------------------------------------------------
(* Session provider and route guard *)

PageStateIsInitial ==
    list = InitList /\ detail = InitDetail /\ create = InitCreate /\ form = NoForm

\* C1: the guarded page is rendered (mounted, holding state) only while loading
\* is false and user is non-null; while loading the guard shows the spinner
\* and does not redirect; with loading false and user null it shows no page and
\* its navigation goes to /login and replaces the history entry.
C1_GuardRendersOnlyWhenAuthenticated ==
    /\ [](route.page \in ProtectedPages =>
            /\ (Mounted(Cur) \in ProtectedPages <=> (~loading /\ user # None))
            /\ (loading => Mounted(Cur) = "spinner")
            /\ ((~loading /\ user = None) => Mounted(Cur) = "redirect")
            /\ (~(~loading /\ user # None) => PageStateIsInitial))
    /\ [][(route' # route /\ lastNav'.by = "ProtectedRoute") =>
            /\ ~loading /\ user = None
            /\ route.page \in ProtectedPages
            /\ route' = LoginRoute /\ lastNav'.replace
            /\ PageStateIsInitial']_vars

C1_Witness ==
    /\ lastNav = [by |-> "ProtectedRoute", replace |-> TRUE]
    /\ route = LoginRoute /\ ~loading /\ user = None

\* C2: the session request is issued only after the subscription is
\* registered; delivering a notification or the session-fetch result sets
\* session and user from the payload and clears loading.
C2_SubscribeFirstAndBothResolve ==
    /\ [](sessionReq.st # "none" => subscribed)
    /\ [][/\ Len(authEvents') < Len(authEvents) =>
               /\ session' = Head(authEvents)
               /\ user' = (IF Head(authEvents) = None THEN None
                           ELSE Some(Val(Head(authEvents)).user))
               /\ loading' = FALSE
          /\ (sessionReq.st = "answered" /\ sessionReq'.st = "delivered") =>
               /\ session' = sessionReq.payload
               /\ user' = (IF sessionReq.payload = None THEN None
                           ELSE Some(Val(sessionReq.payload).user))
               /\ loading' = FALSE]_vars

\* the notification arrived first: loading is false before the fetch result
C2_Witness ==
    /\ ~loading /\ sessionReq.st = "pending" /\ user # None

\* C9: an error returned by sign-in or sign-up is shown as 'Invalid email or
\* password' when its message contains 'Invalid login credentials', else as
\* 'already registered' when it contains 'User already registered', else
\* with the collaborator's own message.
C9_FriendlyAuthErrors ==
    [][(/\ authCall # None /\ authCall' = None
        /\ Val(authCall).mode # "signout"
        /\ Val(authCall).result.kind = "error") =>
          LET m == Val(authCall).result.message
              hasInvalid == \E i \in 1..Len(m) :
                               /\ i + 2 <= Len(m)
                               /\ <<m[i], m[i + 1], m[i + 2]>> = <<"Invalid", "login", "credentials">>
              hasRegistered == \E i \in 1..Len(m) :
                               /\ i + 2 <= Len(m)
                               /\ <<m[i], m[i + 1], m[i + 2]>> = <<"User", "already", "registered">>
          IN /\ toast'.title = "Authentication Error"
             /\ hasInvalid => toast'.description = <<"Invalid email or password. Please try again.">>
             /\ (~hasInvalid /\ hasRegistered) =>
                   toast'.description = <<"This email is already registered. Please sign in instead.">>
             /\ (~hasInvalid /\ ~hasRegistered) => toast'.description = m]_vars

\* a wrong password was answered with a wrapped credentials error and the
\* friendly text is on screen
C9_Witness ==
    /\ toast = [title |-> "Authentication Error", description |-> FriendlyInvalid]
    /\ authCall = None
    /\ login.email = Ann /\ login.password = PwWrong /\ ~login.isSubmitting

----------------------------------------------------------------------------
(* List view filtering *)

Herb == <<"h", "e", "r", "b">>

TitleHas(b, q)  == includes(toLowerCase(b.title), toLowerCase(q))
AuthorHas(b, q) == b.author # None /\ includes(toLowerCase(Val(b.author)), toLowerCase(q))

\* the k-th smallest member of a set of indices
Kth(S, k) == CHOOSE i \in S : Cardinality({j \in S : j < i}) = k - 1

\* C3: the filtered list is, in fetch order, exactly the books whose title or
\* non-null author contains the query (case-insensitively) and whose status is
\* the filter unless the filter is 'all'; 'herb' over Dune/Herbert and
\* Hobbit/null gives Dune alone; the empty query with filter 'reading' gives
\* the books being read.
C3_FilterIsConjunction ==
    LET books == list.books
        q     == list.searchQuery
        f     == list.statusFilter
        keep  == {i \in 1..Len(books) :
                    /\ TitleHas(books[i], q) \/ AuthorHas(books[i], q)
                    /\ f = "all" \/ books[i].status = f}
        reading == {i \in 1..Len(books) : books[i].status = "reading"}
    IN /\ Len(Shown) = Cardinality(keep)
       /\ \A k \in 1..Len(Shown) : Shown[k] = books[Kth(keep, k)]
       /\ (/\ q = Herb
           /\ {<<books[i].title, books[i].author>> : i \in 1..Len(books)}
                 = {<<Dune, Some(Herbert)>>, <<Hobbit, None>>}
           /\ f = "all")
          => {Shown[k].title : k \in 1..Len(Shown)} = {Dune}
       /\ (q = <<>> /\ f = "reading")
          => /\ Len(Shown) = Cardinality(reading)
             /\ \A k \in 1..Len(Shown) : Shown[k] = books[Kth(reading, k)]

C3_Witness ==
    /\ Len(list.books) = 2
    /\ list.books[1].title = Hobbit /\ list.books[1].author = None
    /\ list.books[2].title = Dune /\ list.books[2].author = Some(Herbert)
    /\ list.searchQuery = Herb /\ list.statusFilter = "all"
    /\ Len(Shown) = 1 /\ Shown[1].title = Dune

\* C4 as stated: a query contained in no title gives the empty list.
C4_NoTitleMatchIsEmpty ==
    (\A i \in 1..Len(list.books) : ~TitleHas(list.books[i], list.searchQuery))
       => Shown = <<>>

\* C4, amended: a query contained in no title and in no non-null author gives
\* the empty list, whatever the status filter.
C4_NoMatchIsEmpty ==
    (\A i \in 1..Len(list.books) :
        /\ ~TitleHas(list.books[i], list.searchQuery)
        /\ ~AuthorHas(list.books[i], list.searchQuery))
       => Shown = <<>>

C4_Witness ==
    /\ Len(list.books) = 2
    /\ list.searchQuery = <<"x">>
    /\ list.statusFilter = "reading"
    /\ list.books[1].status = "reading"
    /\ Shown = <<>>

----------------------------------------------------------------------------
(* Create, update, delete and detail fetch *)

\* the collaborator answers request i successfully in this step
AnsweredNow(i, op) ==
    /\ i \in 1..Len(reqs) /\ Len(reqs') = Len(reqs)
    /\ reqs[i].op = op /\ reqs[i].st = "sent"
    /\ reqs'[i].st = "answered" /\ reqs'[i].result.kind = "ok"

AllSpaces(s) == \A k \in 1..Len(s) : s[k] = Space

\* t is s without its leading and trailing spaces
IsTrimOf(t, s) ==
    IF AllSpaces(s) THEN t = <<>>
    ELSE \E a \in 1..Len(s), b \in 1..Len(s) :
            /\ a <= b /\ s[a] # Space /\ s[b] # Space
            /\ \A k \in 1..Len(s) : (k < a \/ k > b) => s[k] = Space
            /\ t = SubSeq(s, a, b)

IsTrimOrNull(o, s) ==
    IF AllSpaces(s) THEN o = None ELSE o # None /\ IsTrimOf(Val(o), s)

OwnHits(r) ==
    {k \in 1..Len(rows) : rows[k].id = r.id /\ Some(rows[k].user_id) = r.as}

\* C5: a draft submitted in the create view by a signed-in user travels with
\* the insert request, and the row inserted for it has the trimmed title, a
\* null author / review when the submitted one is blank and the trimmed one
\* otherwise, and status, rating, is_favorite and reading_progress as
\* submitted (' Dune ', '', '' is stored as 'Dune', null, null); a fetch
\* answered afterwards returns the stored row's values.
C5_CreateNormalizesAndFetchReturns ==
    /\ [][(FormSubmit /\ form.host = "new" /\ ~AllSpaces(form.formData.title)) =>
            /\ Len(reqs') = Len(reqs) + 1
            /\ reqs'[Len(reqs')].op = "insert"
            /\ reqs'[Len(reqs')].data = Some(form.formData)]_vars
    /\ [][\A i \in 1..MaxReqs : AnsweredNow(i, "insert") =>
            LET d == Val(reqs[i].data)
                n == rows'[Len(rows')]
            IN /\ Len(rows') = Len(rows) + 1
               /\ SubSeq(rows', 1, Len(rows)) = rows
               /\ \A k \in 1..Len(rows) : rows[k].id # n.id
               /\ Some(n.user_id) = reqs[i].as
               /\ IsTrimOf(n.title, d.title)
               /\ IsTrimOrNull(n.author, d.author)
               /\ IsTrimOrNull(n.review, d.review)
               /\ n.status = d.status /\ n.rating = d.rating
               /\ n.is_favorite = d.is_favorite
               /\ n.reading_progress = Some(d.reading_progress)
               /\ (d.title = SpDuneSp /\ d.author = <<>> /\ d.review = <<>>) =>
                     (n.title = Dune /\ n.author = None /\ n.review = None)]_vars
    /\ [][\A i \in 1..MaxReqs :
            /\ AnsweredNow(i, "detail") =>
                  IF OwnHits(reqs[i]) = {} THEN reqs'[i].result.data = None
                  ELSE \E k \in OwnHits(reqs[i]) : reqs'[i].result.data = Some(rows[k])
            /\ AnsweredNow(i, "list") =>
                  \A k \in 1..Len(rows) : Some(rows[k].user_id) = reqs[i].as =>
                     \E j \in 1..Len(Val(reqs'[i].result.data)) :
                        LET b == Val(reqs'[i].result.data)[j]
                        IN /\ b.id = rows[k].id /\ b.title = rows[k].title
                           /\ b.author = rows[k].author /\ b.status = rows[k].status
                           /\ b.rating = rows[k].rating
                           /\ b.is_favorite = rows[k].is_favorite
                           /\ b.reading_progress = rows[k].reading_progress
            /\ (FetchBookReturn(i) /\ ~reqs[i].orphan /\ reqs[i].result.kind = "ok"
                  /\ reqs[i].result.data # None) =>
                  detail'.book = reqs[i].result.data]_vars

\* ' Dune ' with a blank author was added, stored trimmed, and fetched back
C5_Witness ==
    /\ Len(rows) = 1 /\ rows[1].title = Dune
    /\ rows[1].author = None /\ rows[1].review = None
    /\ detail.book = Some(rows[1])
    /\ toast.title = "Book added!" /\ toast.description[2] = Space

ColumnsAre(row, cols) ==
    /\ row.title = cols.title /\ row.author = cols.author /\ row.status = cols.status
    /\ row.rating = cols.rating /\ row.review = cols.review
    /\ row.is_favorite = cols.is_favorite
    /\ row.reading_progress = Some(cols.reading_progress)

\* C6: when the store applies an edit-view update, the caller's row with that
\* id takes the payload's columns and nothing else changes, so applying the
\* same payload again changes nothing: a store that already holds the
\* payload's columns is left as it is.
C6_UpdateIsIdempotent ==
    [][\A i \in 1..MaxReqs : AnsweredNow(i, "update") =>
          LET r == reqs[i]
              cols == Val(r.payload).cols
          IN /\ Len(rows') = Len(rows)
             /\ \A k \in 1..Len(rows) :
                   IF k \in OwnHits(r)
                   THEN /\ ColumnsAre(rows'[k], cols)
                        /\ rows'[k].id = rows[k].id
                        /\ rows'[k].user_id = rows[k].user_id
                        /\ rows'[k].created_at = rows[k].created_at
                   ELSE rows'[k] = rows[k]
             /\ ApplyUpdate(rows', r) = rows'
             /\ (\A k \in OwnHits(r) : ColumnsAre(rows[k], cols)) => rows' = rows]_vars

\* the review written by an earlier update was fetched into the form and the
\* same payload has been applied a second time
C6_Witness ==
    /\ toast.title = "Book updated!"
    /\ detail.book # None /\ Val(detail.book).review = Some(Ok2)
    /\ \E i \in 1..Len(reqs) :
          /\ reqs[i].op = "update" /\ reqs[i].st = "answered" /\ ~reqs[i].orphan
          /\ reqs[i].result.kind = "ok" /\ reqs[i].id = 1
          /\ ColumnsAre(Val(detail.book), Val(reqs[i].payload).cols)
          /\ ColumnsAre(rows[1], Val(reqs[i].payload).cols)

\* an id that was assigned and is no longer in the store
Deleted(id) == id < nextId /\ \A k \in 1..Len(rows) : rows[k].id # id

\* C7: once a delete has succeeded the caller's record with that id is gone
\* and stays gone; a detail fetch answered afterwards is empty and takes the
\* 'Book not found' path to the list; a list fetch answered afterwards does
\* not contain the id, and the list view shows what was returned.
C7_DeletedIsGone ==
    /\ [][\A i \in 1..MaxReqs : AnsweredNow(i, "delete") =>
            /\ \A k \in 1..Len(rows') :
                  ~(rows'[k].id = reqs[i].id /\ Some(rows'[k].user_id) = reqs[i].as)
            /\ OwnHits(reqs[i]) # {} => Deleted(reqs[i].id)']_vars
    /\ [][\A id \in 1..(MaxRows + 1) : Deleted(id) => Deleted(id)']_vars
    /\ [][\A i \in 1..MaxReqs :
            /\ (AnsweredNow(i, "detail") /\ Deleted(reqs[i].id)) =>
                  reqs'[i].result.data = None
            /\ (FetchBookReturn(i) /\ reqs[i].result.kind = "ok"
                  /\ reqs[i].result.data = None) =>
                  /\ toast'.title = "Book not found"
                  /\ route' = BooksRoute
                  /\ detail'.book = None
            /\ AnsweredNow(i, "list") =>
                  \A j \in 1..Len(Val(reqs'[i].result.data)) :
                     ~Deleted(Val(reqs'[i].result.data)[j].id)
            /\ (FetchBooksReturn(i) /\ ~reqs[i].orphan /\ reqs[i].result.kind = "ok") =>
                  list'.books = Val(reqs[i].result.data)]_vars

\* record 1 was deleted, opening it again led back to the list with 'Book not
\* found', and the list fetched after that does not show it
C7_Witness ==
    /\ Deleted(1)
    /\ toast.title = "Book not found" /\ lastNav.by = "BookDetail"
    /\ route = BooksRoute /\ ~list.loading
    /\ \A j \in 1..Len(list.books) : list.books[j].id # 1

NotFoundToast ==
    [title |-> "Book not found",
     description |-> <<"This book does not exist or you do not have access.">>]
LoadFailedToast ==
    [title |-> "Error", description |-> <<"Failed to load book. Please try again.">>]

\* C8: the detail fetch is answered empty for an id that does not exist or
\* belongs to someone else; on its return a row populates the book with no
\* notification and no navigation, an empty result shows 'Book not found' (not
\* the generic error) and goes to the list, an error shows 'Failed to load
\* book' and goes to the list; in each case the fetching view's loading flag
\* is set to false.
C8_DetailFetchOutcomes ==
    [][\A i \in 1..MaxReqs :
          /\ (AnsweredNow(i, "detail") /\ OwnHits(reqs[i]) = {}) =>
                reqs'[i].result.data = None
          /\ FetchBookReturn(i) =>
                LET r == reqs[i]
                    after == FetchBookHandler([Cur EXCEPT !.reqs = RemoveAt(@, i)], r)
                IN /\ (r.result.kind = "ok" /\ r.result.data # None) =>
                         /\ route' = route /\ toast' = toast /\ lastNav' = lastNav
                         /\ ~r.orphan => (detail'.book = r.result.data /\ ~detail'.loading)
                   /\ (r.result.kind = "ok" /\ r.result.data = None) =>
                         /\ toast' = NotFoundToast /\ toast' # LoadFailedToast
                         /\ route' = BooksRoute
                         /\ lastNav' = [by |-> "BookDetail", replace |-> FALSE]
                   /\ r.result.kind # "ok" =>
                         /\ toast' = LoadFailedToast
                         /\ route' = BooksRoute
                         /\ lastNav' = [by |-> "BookDetail", replace |-> FALSE]
                   /\ ~r.orphan => ~after.detail.loading]_vars

\* a record owned by someone else was opened: not found, back at the list
C8_Witness ==
    /\ toast = NotFoundToast
    /\ route = BooksRoute /\ lastNav = [by |-> "BookDetail", replace |-> FALSE]
    /\ rows = <<OwnRow, ForeignRow>>

\* C10: submitting the form with a blank title shows 'Title required' and
\* changes nothing else: no request is added, no in-flight flag is set, the
\* page stays; so no insert or update request carries a blank title and no
\* stored record has one.
C10_BlankTitleIsBlocked ==
    /\ [][(FormSubmit /\ AllSpaces(form.formData.title)) =>
            /\ toast' = [title |-> "Title required",
                         description |-> <<"Please enter a book title.">>]
            /\ reqs' = reqs /\ rows' = rows
            /\ create' = create /\ detail' = detail
            /\ route' = route /\ form' = form]_vars
    /\ [](\A i \in 1..Len(reqs) : reqs[i].op \in {"insert", "update"} =>
            /\ ~AllSpaces(Val(reqs[i].data).title)
            /\ Val(reqs[i].payload).cols.title # <<>>)
    /\ [](create.isLoading => \E i \in 1..Len(reqs) : reqs[i].op = "insert")
    /\ [](detail.isUpdating => \E i \in 1..Len(reqs) : reqs[i].op = "update")
    /\ [](\A k \in 1..Len(rows) : ~AllSpaces(rows[k].title))

\* the edit form's title was blanked and submitted: the notification is up,
\* nothing was sent
C10_Witness ==
    /\ toast.title = "Title required"
    /\ form.host = "detail" /\ form.formData.title = <<Space>>
    /\ reqs = <<>> /\ ~detail.isUpdating
    /\ rows = <<OwnRow>>

----------------------------------------------------------------------------
(* Outcomes of create, update and delete *)

AddFailedToast ==
    [title |-> "Error", description |-> <<"Failed to add book. Please try again.">>]

\* the client state with no resolved identity
NoIdentity == [Cur EXCEPT !.user = None]

\* C11: NewBook's submit handler called with user null returns the state as
\* it is (no request, no notification, no navigation, isLoading false as
\* before); with a user, a submit sends exactly one insert and sets isLoading;
\* on success the notification quotes the submitted title and the route
\* becomes /books; on failure the 'Failed to add book' notification is shown,
\* the route and the draft are unchanged, isLoading is cleared and nothing
\* further is sent.
C11_CreateSubmitOutcomes ==
    /\ [](\A d \in Drafts : NewBookSubmit(NoIdentity, d) = NoIdentity)
    /\ [][(FormSubmit /\ form.host = "new" /\ ~AllSpaces(form.formData.title)) =>
            /\ user # None
            /\ Len(reqs') = Len(reqs) + 1
            /\ \A k \in 1..Len(reqs) : reqs'[k].op = reqs[k].op /\ reqs'[k].st = reqs[k].st
            /\ reqs'[Len(reqs')].op = "insert" /\ reqs'[Len(reqs')].st = "sent"
            /\ create'.isLoading
            /\ toast' = toast /\ route' = route /\ form' = form]_vars
    /\ [][\A i \in 1..MaxReqs : NewBookReturn(i) =>
            /\ Len(reqs') = Len(reqs) - 1
            /\ ~reqs[i].orphan => ~create'.isLoading
            /\ IF reqs[i].result.kind = "ok"
               THEN /\ toast'.title = "Book added!"
                    /\ SubSeq(toast'.description, 2, Len(Val(reqs[i].data).title) + 1)
                          = Val(reqs[i].data).title
                    /\ route' = BooksRoute
                    /\ lastNav' = [by |-> "NewBook", replace |-> FALSE]
               ELSE /\ toast' = AddFailedToast
                    /\ route' = route /\ lastNav' = lastNav
                    /\ form' = form]_vars

\* an insert failed: the error is shown, the typed draft is still in the form
\* of the create view and can be submitted again
C11_Witness ==
    /\ toast = AddFailedToast
    /\ route = NewRoute /\ form.host = "new" /\ form.formData.title = SpDuneSp
    /\ ~create.isLoading /\ reqs = <<>> /\ rows = <<>>

UpdatedToast ==
    [title |-> "Book updated!", description |-> <<"Your changes have been saved.">>]
UpdateFailedToast ==
    [title |-> "Error", description |-> <<"Failed to update book. Please try again.">>]

\* C12: when an update returns successfully the 'Book updated!' notification
\* is shown and the route becomes /books; when it returns with a failure the
\* 'Failed to update book' notification is shown, the route, the loaded book
\* and the draft are unchanged, and the issuing view has isUpdating cleared
\* with its form still shown and its submit button enabled.
C12_UpdateOutcomes ==
    [][\A i \in 1..MaxReqs : UpdateReturn(i) =>
          IF reqs[i].result.kind = "ok"
          THEN /\ toast' = UpdatedToast
               /\ route' = BooksRoute
               /\ lastNav' = [by |-> "BookDetail", replace |-> FALSE]
          ELSE /\ toast' = UpdateFailedToast
               /\ route' = route /\ lastNav' = lastNav
               /\ detail'.book = detail.book /\ form' = form
               /\ Len(reqs') = Len(reqs) - 1
               /\ ~reqs[i].orphan =>
                     /\ ~detail'.isUpdating
                     /\ detail'.book # None /\ form'.host = "detail"
                     /\ SubmitEnabled']_vars

\* an update failed: the error is shown over the edit view, which still holds
\* the book and the edited draft
C12_Witness ==
    /\ toast = UpdateFailedToast
    /\ route = DetailRoute(1) /\ detail.book = Some(OwnRow)
    /\ form.host = "detail" /\ form.formData.review = Ok2
    /\ ~detail.isUpdating /\ reqs = <<>> /\ rows[1] = OwnRow

DeletedToast ==
    [title |-> "Book deleted",
     description |-> <<"The book has been removed from your library.">>]
DeleteFailedToast ==
    [title |-> "Error", description |-> <<"Failed to delete book. Please try again.">>]

DeleteRequests(s) == {k \in 1..Len(s) : s[k].op = "delete"}

\* C13: a delete request is added only from a state in which the confirmation
\* dialog of the shown book is open, and is added alone; opening the dialog
\* and cancelling it change nothing but the dialog being open; when a delete
\* returns successfully 'Book deleted' is shown and the route becomes /books;
\* when it fails 'Failed to delete book' is shown, the route is unchanged and
\* the issuing view still shows its book with isDeleting cleared.
C13_DeleteNeedsConfirmation ==
    /\ [][Cardinality(DeleteRequests(reqs')) > Cardinality(DeleteRequests(reqs)) =>
            /\ detail.dialogOpen /\ detail.book # None /\ ~detail.loading
            /\ route.page = "detail"
            /\ Len(reqs') = Len(reqs) + 1
            /\ reqs'[Len(reqs')].op = "delete" /\ reqs'[Len(reqs')].id = route.id
            /\ rows' = rows /\ toast' = toast /\ route' = route]_vars
    /\ [][OpenDialog =>
            /\ detail' = [detail EXCEPT !.dialogOpen = TRUE]
            /\ reqs' = reqs /\ rows' = rows /\ toast' = toast
            /\ route' = route /\ form' = form]_vars
    /\ [][CancelDialog =>
            /\ detail' = [detail EXCEPT !.dialogOpen = FALSE]
            /\ reqs' = reqs /\ rows' = rows /\ toast' = toast
            /\ route' = route /\ form' = form]_vars
    /\ [][\A i \in 1..MaxReqs : DeleteReturn(i) =>
            IF reqs[i].result.kind = "ok"
            THEN /\ toast' = DeletedToast
                 /\ route' = BooksRoute
                 /\ lastNav' = [by |-> "BookDetail", replace |-> FALSE]
            ELSE /\ toast' = DeleteFailedToast
                 /\ route' = route /\ lastNav' = lastNav
                 /\ detail'.book = detail.book /\ form' = form
                 /\ ~reqs[i].orphan =>
                       /\ detail'.book # None /\ ~detail'.loading
                       /\ ~detail'.isDeleting]_vars

\* a confirmed delete failed: the error is shown and the record is still
\* displayed and still stored
C13_Witness ==
    /\ toast = DeleteFailedToast
    /\ route = DetailRoute(1) /\ detail.book = Some(OwnRow)
    /\ ~detail.isDeleting /\ ~detail.dialogOpen
    /\ reqs = <<>> /\ rows[1] = OwnRow

----------------------------------------------------------------------------
(* In-flight flags *)

Pending(s, i) == [s EXCEPT !.reqs = RemoveAt(@, i)]

\* C14: in the detail view, submitting an update sets isUpdating and leaves
\* the rest of the view state alone, an update's return clears isUpdating
\* alone, confirming a delete sets isDeleting (and closes the dialog), a
\* delete's return clears isDeleting alone; the submit button is usable
\* exactly when isUpdating is false and the confirm button exactly when
\* isDeleting is false, whatever the other flag.
C14_FlagsAreIndependent ==
    /\ [][(FormSubmit /\ form.host = "detail" /\ ~AllSpaces(form.formData.title)) =>
            detail' = [detail EXCEPT !.isUpdating = TRUE]]_vars
    /\ [][ConfirmDelete =>
            detail' = [detail EXCEPT !.isDeleting = TRUE, !.dialogOpen = FALSE]]_vars
    /\ [][\A i \in 1..MaxReqs :
            /\ (UpdateReturn(i) /\ ~reqs[i].orphan) =>
                  /\ UpdateHandler(Pending(Cur, i), reqs[i]).detail
                        = [detail EXCEPT !.isUpdating = FALSE]
                  /\ route' = route => detail' = [detail EXCEPT !.isUpdating = FALSE]
            /\ (DeleteReturn(i) /\ ~reqs[i].orphan) =>
                  /\ DeleteHandler(Pending(Cur, i), reqs[i]).detail
                        = [detail EXCEPT !.isDeleting = FALSE]
                  /\ route' = route => detail' = [detail EXCEPT !.isDeleting = FALSE]]_vars
    /\ [][(FormSubmit /\ form.host = "detail") => ~detail.isUpdating]_vars
    /\ [][Cardinality(DeleteRequests(reqs')) > Cardinality(DeleteRequests(reqs)) =>
            ~detail.isDeleting]_vars
    /\ [](form.host = "detail" =>
            /\ SubmitEnabled <=> ~detail.isUpdating
            /\ detail.dialogOpen => (ConfirmEnabled <=> ~detail.isDeleting))

\* an update and a delete of the same view are in flight together
C14_Witness ==
    /\ detail.isUpdating /\ detail.isDeleting
    /\ Len(reqs) = 2
    /\ {reqs[1].op, reqs[2].op} = {"update", "delete"}
    /\ ~reqs[1].orphan /\ ~reqs[2].orphan
    /\ reqs[1].st = "sent" /\ reqs[2].st = "sent"

ListFailedToast ==
    [title |-> "Error", description |-> <<"Failed to load books. Please try again.">>]

\* C15: a list view that is still loading holds no books; when its fetch
\* returns with a failure the 'Failed to load books' notification is shown,
\* the books are what they were (none), loading is cleared, the query and the
\* filter are untouched and the route does not change.
C15_ListFetchFailure ==
    /\ [](list.loading => list.books = <<>>)
    /\ [][\A i \in 1..MaxReqs :
            (FetchBooksReturn(i) /\ reqs[i].result.kind # "ok") =>
               /\ toast' = ListFailedToast
               /\ route' = route /\ lastNav' = lastNav
               /\ list'.books = list.books
               /\ ~reqs[i].orphan =>
                     list' = [list EXCEPT !.loading = FALSE]]_vars

\* the reader has books in the store, the fetch failed: no books, no spinner
C15_Witness ==
    /\ toast = ListFailedToast
    /\ route = BooksRoute /\ Mounted(Cur) = "books"
    /\ list.books = <<>> /\ ~list.loading
    /\ Len(rows) = 2 /\ rows[1].user_id = "u1"
    /\ reqs = <<>>

\* the mounted view has a request of kind op in flight
InFlight(op) == \E k \in 1..Len(reqs) : reqs[k].op = op /\ ~reqs[k].orphan

UnexpectedToast ==
    [title |-> "Error", description |-> <<"Something went wrong. Please try again.">>]

\* C16: when the response to a list fetch, detail fetch, create, update,
\* delete, sign-in or sign-up is handled (success, reported error or thrown
\* exception alike) the issuing view's in-flight flag is set to false; a flag
\* is set only while its operation is still to be answered or handled; and
\* after a failed update or delete the view still holds its book.
C16_FlagsAreCleared ==
    /\ [][\A i \in 1..MaxReqs :
            /\ (FetchBooksReturn(i) /\ ~reqs[i].orphan) => ~list'.loading
            /\ (FetchBookReturn(i) /\ ~reqs[i].orphan) =>
                  /\ ~FetchBookHandler(Pending(Cur, i), reqs[i]).detail.loading
                  /\ route' = route => ~detail'.loading
            /\ (NewBookReturn(i) /\ ~reqs[i].orphan) =>
                  /\ ~NewBookHandler(Pending(Cur, i), reqs[i]).create.isLoading
                  /\ ~create'.isLoading
            /\ (UpdateReturn(i) /\ ~reqs[i].orphan) =>
                  /\ ~UpdateHandler(Pending(Cur, i), reqs[i]).detail.isUpdating
                  /\ ~detail'.isUpdating
                  /\ reqs[i].result.kind # "ok" =>
                        (detail'.book = detail.book /\ detail'.book # None)
            /\ (DeleteReturn(i) /\ ~reqs[i].orphan) =>
                  /\ ~DeleteHandler(Pending(Cur, i), reqs[i]).detail.isDeleting
                  /\ ~detail'.isDeleting
                  /\ reqs[i].result.kind # "ok" =>
                        (detail'.book = detail.book /\ detail'.book # None)]_vars
    /\ [][HandleAuthReturn => ~login'.isSubmitting]_vars
    /\ [](/\ login.isSubmitting =>
                (authCall # None /\ ~Val(authCall).orphan /\ Val(authCall).mode # "signout")
          /\ create.isLoading => InFlight("insert")
          /\ detail.isUpdating => InFlight("update")
          /\ detail.isDeleting => InFlight("delete")
          /\ (Mounted(Cur) = "books" /\ list.loading) =>
                (list.fetchDue \/ InFlight("list"))
          /\ (Mounted(Cur) = "detail" /\ detail.loading) =>
                (detail.fetchDue \/ InFlight("detail")))

\* a sign-in call threw: the generic error is shown and the buttons are
\* usable again
C16_Witness ==
    /\ toast = UnexpectedToast
    /\ route = LoginRoute /\ user = None
    /\ login.email = Ann /\ login.password = PwGood
    /\ ~login.isSubmitting /\ authCall = None

----------------------------------------------------------------------------
(* Retries *)

Ops(s) == [k \in 1..Len(s) |-> [op |-> s[k].op, id |-> s[k].id, data |-> s[k].data]]

\* C17: a request is added one at a time and only by the user's action (the
\* form's submit for insert and update, the dialog's confirm for delete) or by
\* a view's fetch effect; a submit with a blank title and a sign-in with
\* invalid input add none; a sign-in or sign-up call starts only from the
\* sign-in view's buttons; and handling a response, failed or not, removes
\* that request and starts no other.
C17_NoAutomaticRetry ==
    /\ [][Len(reqs') > Len(reqs) =>
            /\ Len(reqs') = Len(reqs) + 1
            /\ Ops(SubSeq(reqs', 1, Len(reqs))) = Ops(reqs)
            /\ reqs'[Len(reqs')].op \in {"insert", "update"} => FormSubmit
            /\ reqs'[Len(reqs')].op = "delete" => ConfirmDelete
            /\ reqs'[Len(reqs')].op = "list" => BooksEffect
            /\ reqs'[Len(reqs')].op = "detail" => DetailEffect]_vars
    /\ [][FormSubmit =>
            IF AllSpaces(form.formData.title) THEN reqs' = reqs
            ELSE Len(reqs') = Len(reqs) + 1]_vars
    /\ [][(authCall = None /\ authCall' # None) =>
            /\ HandleAuth \/ Val(authCall').mode = "signout"
            /\ AuthSchemaErrors(login.email, login.password) = <<>>]_vars
    /\ [][HandleAuth =>
            IF AuthSchemaErrors(login.email, login.password) # <<>>
            THEN authCall' = None ELSE authCall' # None]_vars
    /\ [][HandleAuthReturn => authCall' = None]_vars
    /\ [][\A i \in 1..MaxReqs :
            (NewBookReturn(i) \/ UpdateReturn(i) \/ DeleteReturn(i)) =>
               Ops(reqs') = Ops(RemoveAt(reqs, i))]_vars

\* an update failed and nothing is outstanding: the edited title is still
\* only in the form
C17_Witness ==
    /\ toast = UpdateFailedToast
    /\ reqs = <<>> /\ authCall = None
    /\ form.host = "detail" /\ form.formData.title = Hobbit
    /\ rows[1].title = Dune /\ ~detail.isUpdating

----------------------------------------------------------------------------
(* Session resolution *)

\* C18: the provider's loading flag is true at the start, and once false it
\* is false in every later state, whatever notification, session-fetch
\* result, sign-in, sign-up or sign-out follows; with loading false the guard
\* renders its children (user present) or redirects (user null), never the
\* spinner.
C18_NeverResolvingAgain ==
    /\ loading = TRUE
    /\ [][~loading => ~loading']_vars
    /\ [](~loading =>
            /\ ProtectedRoute(loading, user) \in {"children", "redirect"}
            /\ ProtectedRoute(loading, user) = "children" <=> user # None)

\* a stored session was resolved and the reader has since signed out
C18_Witness ==
    /\ ~loading /\ user = None /\ session = None
    /\ sessionReq.st = "delivered" /\ sessionReq.payload # None
    /\ collabSession = None /\ authEvents = <<>>

----------------------------------------------------------------------------
(* Responses that arrive after their view has unmounted *)

\* C19: handling a response whose issuing view has left the tree changes no
\* notification, no route and no state of any view.
C19_LateResponseIsDiscarded ==
    [][\A i \in 1..MaxReqs :
          ((FetchBooksReturn(i) \/ FetchBookReturn(i) \/ NewBookReturn(i)
               \/ UpdateReturn(i) \/ DeleteReturn(i)) /\ reqs[i].orphan) =>
             /\ toast' = toast
             /\ route' = route /\ lastNav' = lastNav
             /\ viewVars' = viewVars]_vars

\* the reader submitted a new book, opened record 1 before the answer came,
\* and is reading it while the successful answer waits to be handled
C19_Witness ==
    /\ route = DetailRoute(1) /\ detail.book # None /\ ~detail.loading
    /\ \E i \in 1..Len(reqs) :
          /\ reqs[i].op = "insert" /\ reqs[i].orphan
          /\ reqs[i].st = "answered" /\ reqs[i].result.kind = "ok"

----------------------------------------------------------------------------
(* Who reports a failed submission *)

PageToast(i) ==
    IF reqs[i].op = "insert"
    THEN NewBookHandler(Pending(Cur, i), reqs[i]).toast
    ELSE UpdateHandler(Pending(Cur, i), reqs[i]).toast

FailedSubmitReturns(i) ==
    /\ NewBookReturn(i) \/ UpdateReturn(i)
    /\ reqs[i].result.kind # "ok"

\* C20 as stated: when a create or edit submission fails, the page's error
\* notification is shown and then the form's 'Something went wrong' one.
C20_FailureReportedTwice ==
    [][\A i \in 1..MaxReqs : FailedSubmitReturns(i) =>
          /\ PageToast(i) \in {AddFailedToast, UpdateFailedToast}
          /\ toast' = UnexpectedToast]_vars

\* C20, amended: when a create or edit submission fails, the page's error
\* notification is the one shown and the form's 'Something went wrong'
\* notification does not follow it; the form never shows that notification.
C20_FailureReportedOnce ==
    /\ [][\A i \in 1..MaxReqs : FailedSubmitReturns(i) =>
            /\ PageToast(i) \in {AddFailedToast, UpdateFailedToast}
            /\ toast' = PageToast(i)
            /\ toast' # UnexpectedToast]_vars
    /\ [](toast # UnexpectedToast)

\* a create failed in the form: the page's notification is the one on screen
C20_Witness ==
    /\ toast = AddFailedToast
    /\ form.host = "new" /\ form.formData.title = Hobbit
    /\ ~create.isLoading /\ reqs = <<>> /\ rows = <<OwnRow>>

----------------------------------------------------------------------------
(* The draft's progress, rating and ranges *)

\* the form instance of this step is the one of the step before
SameForm == form.host # "none" /\ form'.host = form.host

\* C21: the draft's reading_progress changes only while the slider is
\* rendered, which is while the draft status is 'reading'; a change of the
\* status leaves reading_progress as it was; and the value the draft holds
\* is the value sent and stored with the record, whatever the status is.
C21_ProgressSurvivesStatusChange ==
    /\ [][(SameForm /\ form'.formData.reading_progress # form.formData.reading_progress) =>
            (SliderShown(form.formData) /\ form.formData.status = "reading")]_vars
    /\ [][(SameForm /\ form'.formData.status # form.formData.status) =>
            form'.formData.reading_progress = form.formData.reading_progress]_vars
    /\ [][(FormSubmit /\ ~AllSpaces(form.formData.title)) =>
            /\ Len(reqs') = Len(reqs) + 1
            /\ Val(reqs'[Len(reqs')].payload).cols.reading_progress
                  = form.formData.reading_progress
            /\ Val(reqs'[Len(reqs')].payload).cols.status = form.formData.status]_vars
    /\ [][\A i \in 1..MaxReqs :
            /\ AnsweredNow(i, "update") =>
                  \A k \in OwnHits(reqs[i]) :
                     rows'[k].reading_progress
                        = Some(Val(reqs[i].data).reading_progress)
            /\ AnsweredNow(i, "insert") =>
                  rows'[Len(rows')].reading_progress
                     = Some(Val(reqs[i].data).reading_progress)]_vars

\* a record stored as 'reading' at 50% had its status changed in the form
\* and was saved: it is no longer 'reading' and still holds 50%
C21_Witness ==
    /\ edits = 1 /\ toast.title = "Book updated!"
    /\ Len(rows) = 1 /\ rows[1].status # "reading"
    /\ rows[1].reading_progress = Some(SliderMax \div 2)

----------------------------------------------------------------------------
(* Ownership *)

EditableNames ==
    {"title", "author", "status", "rating", "review", "is_favorite", "reading_progress"}

\* C22: the insert the create view sends carries the id of the user signed
\* in at the submit, and the row inserted for it has that user_id; the
\* update the edit view sends carries the seven editable columns and nothing
\* else; and no step changes the id, user_id or created_at of a stored row.
C22_OwnershipIsFixed ==
    /\ [][(FormSubmit /\ ~AllSpaces(form.formData.title)) =>
            LET r == reqs'[Len(reqs')]
            IN /\ Len(reqs') = Len(reqs) + 1
               /\ DOMAIN Val(r.payload).cols = EditableNames
               /\ form.host = "new" =>
                     (r.op = "insert" /\ user # None
                        /\ Val(r.payload).user_id = Val(user).id)
               /\ form.host = "detail" => r.op = "update"]_vars
    /\ [][\A i \in 1..MaxReqs : AnsweredNow(i, "insert") =>
            /\ Len(rows') = Len(rows) + 1
            /\ rows'[Len(rows')].user_id = Val(reqs[i].payload).user_id]_vars
    /\ [][\A k \in 1..Len(rows) :
            /\ k <= Len(rows')
            /\ rows'[k].id = rows[k].id
            /\ rows'[k].user_id = rows[k].user_id
            /\ rows'[k].created_at = rows[k].created_at]_vars

\* a record was created, opened in the edit view and saved again, and is
\* still the creator's
C22_Witness ==
    /\ toast.title = "Book updated!" /\ reqs = <<>>
    /\ Len(rows) = 1 /\ rows[1].user_id = "u1" /\ rows[1].id = rows[1].created_at

----------------------------------------------------------------------------
(* Ranges *)

StatusInRange(s)   == s \in {"want_to_read", "reading", "read"}
RatingInRange(r)   == r = None \/ Val(r) \in 1..5
ProgressInRange(p) == p \in 0..100

\* C23: starting from the form defaults or from a stored record within the
\* ranges, every draft the form holds, every payload it sends and every
\* record in the store has a status among want_to_read / reading / read, a
\* rating that is null or one of 1..5, and a reading_progress in 0..100.
C23_WrittenRecordsAreInRange ==
    /\ form.host # "none" =>
          /\ StatusInRange(form.formData.status)
          /\ RatingInRange(form.formData.rating)
          /\ ProgressInRange(form.formData.reading_progress)
    /\ \A i \in 1..Len(reqs) : reqs[i].op \in {"insert", "update"} =>
          /\ StatusInRange(Val(reqs[i].payload).cols.status)
          /\ RatingInRange(Val(reqs[i].payload).cols.rating)
          /\ ProgressInRange(Val(reqs[i].payload).cols.reading_progress)
    /\ \A k \in 1..Len(rows) :
          /\ StatusInRange(rows[k].status)
          /\ RatingInRange(rows[k].rating)
          /\ rows[k].reading_progress # None
          /\ ProgressInRange(Val(rows[k].reading_progress))

\* the slider was moved to its end and the record saved with it
C23_Witness ==
    /\ edits = 1 /\ toast.title = "Book updated!"
    /\ Len(rows) = 1 /\ rows[1].reading_progress = Some(100)

----------------------------------------------------------------------------
(* The provider's session and user *)

\* C24: in every state of the session provider user is null exactly when
\* session is null, and otherwise user is the session's user.
C24_UserMatchesSession ==
    /\ (user = None) <=> (session = None)
    /\ session # None => user = Some(Val(session).user)

\* the session fetch delivered a session and a later sign-out notification
\* has cleared both
C24_Witness ==
    /\ user = None /\ session = None /\ ~loading
    /\ sessionReq.st = "delivered" /\ sessionReq.payload # None

\* C25: once the session-fetch result and every notification issued so far
\* have been delivered, the provider's session and user are the
\* collaborator's current auth state.
C25_ProviderFollowsCollaborator ==
    (sessionReq.st = "delivered" /\ authEvents = <<>>) =>
        /\ session = collabSession
        /\ user = UserOfSession(collabSession)

\* the notification of a newer auth state has been delivered and the older
\* session-fetch result is still on its way
C25_Witness ==
    /\ sessionReq.st = "answered" /\ sessionReq.payload # collabSession
    /\ authEvents = <<>> /\ ~loading /\ session = collabSession

----------------------------------------------------------------------------
(* What 'Book updated!' stands for *)

\* C26: an update the collaborator answers without an error, which the edit
\* view reports with 'Book updated!', has left in the store a record with
\* the request's id that holds the payload's columns.
C26_UpdatedMeansStored ==
    [][\A i \in 1..MaxReqs : AnsweredNow(i, "update") =>
          /\ UpdateHandler(Cur, reqs'[i]).toast.title = "Book updated!"
          /\ \E k \in 1..Len(rows') :
                /\ rows'[k].id = reqs[i].id
                /\ ColumnsAre(rows'[k], Val(reqs[i].payload).cols)]_vars

\* the delete confirmed in the same view has been applied and the update
\* sent from it is still to be processed
C26_Witness ==
    /\ \A k \in 1..Len(rows) : rows[k].id # 1
    /\ \E i \in 1..Len(reqs) :
          /\ reqs[i].op = "update" /\ reqs[i].st = "sent" /\ reqs[i].id = 1
          /\ ~reqs[i].orphan

----------------------------------------------------------------------------
(* Saving a record as it was loaded *)

\* the update of request i comes from a form in which nothing was changed
UnchangedSave(i) == AnsweredNow(i, "update") /\ edits = 0

----------------------------------------------------------------------------
(* The record on screen and the record addressed *)

EditShown == FormHost(Mounted(Cur), detail) = "detail"

\* C28: whenever the edit view shows a book, it is the book of the current
\* route id, and the form on screen holds that book's data (no title is
\* edited here, so the draft's title is the title it was seeded with); an
\* update or delete sent from the view is addressed to that book.
C28_EditAddressesTheBookShown ==
    /\ [](EditShown =>
            /\ Val(detail.book).id = route.id
            /\ form.formData.title = Val(detail.book).title)
    /\ [][((FormSubmit \/ ConfirmDelete) /\ Len(reqs') = Len(reqs) + 1) =>
            reqs'[Len(reqs')].id = Val(detail.book).id]_vars

\* both fetches have returned, the one for /books/1 last: the view at
\* /books/2 shows record 1 for good
C28_Witness ==
    /\ route = DetailRoute(2) /\ reqs = <<>> /\ ~detail.fetchDue
    /\ EditShown /\ Val(detail.book).id = 1

----------------------------------------------------------------------------
(* Redirects *)

Settled ==
    IF user # None THEN route.page \in {"books", "new", "detail"}
    ELSE route = LoginRoute

\* C29: with the session resolved, from any address, the redirects of the
\* landing page, the sign-in view and the route guard come to rest: from some
\* point on a signed-in user is on a guarded page and never again on /login
\* or the landing page, a signed-out user is on /login, and the route no
\* longer alternates between /login and /books; a redirect by the guard is
\* made for a signed-out user only and one by the sign-in view's effect for
\* a signed-in user only.  The navigation to /books after a sign-up that
\* produced no session is among the navigations covered.
C29_RedirectsSettle ==
    /\ <>[]Settled
    /\ [][(route' # route /\ lastNav'.by = "ProtectedRoute") =>
            (user = None /\ route' = LoginRoute)]_vars
    /\ [][LoginEffect => (user # None /\ route' = BooksRoute)]_vars

\* a sign-up without a session went to /books and the guard has sent the
\* reader back to /login
C29_Witness ==
    /\ route = LoginRoute /\ user = None /\ collabSession = None
    /\ toast.title = "Account created!"
    /\ lastNav = [by |-> "ProtectedRoute", replace |-> TRUE]

----------------------------------------------------------------------------
(* The rating once set *)

====
